---- MODULE Spec2Model ----
(***************************************************************************)
(* CanterburyCommuto: overlap of two commuting routes.                     *)
(*                                                                         *)
(* Six specifications share this module.                                   *)
(*   SpecNodes  the exact node matcher and splitter (find_common_nodes,    *)
(*              split_segments) applied to bounded pairs of routes.        *)
(*   SpecRow    one input row processed end to end by one of the row       *)
(*              functions, with the Route Oracle (get_route_data) answering*)
(*              nondeterministically.                                      *)
(*   SpecRec    one input row processed by the rectangle row function on   *)
(*              routes that have a part before and after their overlap.    *)
(*   SpecBatch  Overlap_Function: cost estimate, confirmation, read of the *)
(*              input rows, the worker pool and the collector.             *)
(*   SpecDispatch  the steps of SpecBatch, started from Overlap_Function on *)
(*              every pair of flags its dispatch has an arm for.           *)
(*   SpecCalc   the geometry and arithmetic functions of the pipelines     *)
(*              (rectangles, overlap ratios, area ratios, percentages)     *)
(*              applied to bounded arguments.                              *)
(***************************************************************************)
EXTENDS Integers, Sequences, FiniteSets, TLC

VARIABLES
    \* ---- SpecNodes: arguments and results of the matcher and splitter
    n_pc,              \* "input" | "found" | "split"
    coordinates_a,     \* route A, a sequence of coordinates
    coordinates_b,     \* route B
    common_nodes,      \* <<first_common_node, last_common_node>>
    segments_a,        \* split_segments(coordinates_a, first, last)
    segments_b,        \* split_segments(coordinates_b, first, last)
    \* ---- SpecRow: one row inside one row function
    r_pc,              \* "running" | "done"
    r_fn,              \* the row function
    r_row,             \* the row, as read_csv_file maps it
    r_skip_invalid,    \* the skip_invalid flag handed to the row function
    r_calls,           \* the get_route_data calls made so far, with their answers
    r_outcome,         \* the returned triple, or the exception raised
    \* ---- SpecBatch: Overlap_Function and the batch entry points
    b_pc,              \* "estimate" | "confirm" | "read" | "map" | "log" | "done"
    b_args,            \* entry point, strategy, skip_invalid, confirmation
    b_csv,             \* the input file: one endpoint quadruple per row
    b_estimate,        \* num_requests of request_cost_estimation
    b_data,            \* the rows read_csv_file returned
    b_pre_api_error_count,
    b_calls,           \* per row, the get_route_data calls its worker made
    b_outcome,         \* per row, the returned triple or the exception raised
    b_after_error,     \* the first row that raised; rows run and calls made after it
    b_return,          \* what the entry point returned to its caller
    b_exception,       \* the exception that reached the caller, or "none"
    b_output,          \* the rows written to the output file
    b_log,             \* the counts written to the log
    api_response_cache,\* the module-level dictionary of raw answers
    b_cache_file,      \* the cache as pickled to results/api_response_cache.pkl
    \* ---- SpecCalc: one function applied to one tuple of arguments
    f_pc,              \* "call" | "returned"
    f_fn,              \* the function
    f_args,            \* its arguments
    f_result           \* what it returned, or the exception it raised

nodeVars == <<n_pc, coordinates_a, coordinates_b, common_nodes, segments_a, segments_b>>

rowVars == <<r_pc, r_fn, r_row, r_skip_invalid, r_calls, r_outcome>>

batchVars == <<b_pc, b_args, b_csv, b_estimate, b_data, b_pre_api_error_count, b_calls,
               b_outcome, b_after_error, b_return, b_exception, b_output, b_log,
               api_response_cache, b_cache_file>>

calcVars == <<f_pc, f_fn, f_args, f_result>>

vars == <<nodeVars, rowVars, batchVars, calcVars>>

(***************************************************************************)
(* Values                                                                  *)
(***************************************************************************)

\* Python's None; like None, the empty tuple is falsy.
None == <<>>

\* the longest polyline the oracle returns in the model
MaxRouteLen == 3

\* (lat, lon) pairs; equality is exact equality of both components
Coords == {<<0, 0>>, <<0, 1>>, <<0, 2>>}

RECURSIVE SeqsUpTo(_, _)
SeqsUpTo(S, n) ==
    IF n = 0 THEN {<<>>}
    ELSE LET shorter == SeqsUpTo(S, n - 1)
         IN  shorter \cup {Append(s, x) : s \in {t \in shorter : Len(t) = n - 1}, x \in S}

\* every polyline of at most MaxRouteLen points, the empty one included
Routes == SeqsUpTo(Coords, MaxRouteLen)

SetMin(S) == CHOOSE x \in S : \A y \in S : x <= y
SetMax(S) == CHOOSE x \in S : \A y \in S : x >= y

\* the route pair of the documented example
ExampleRouteA == <<<<0, 0>>, <<0, 1>>, <<0, 2>>, <<0, 3>>>>
ExampleRouteB == <<<<1, 1>>, <<0, 1>>, <<0, 2>>, <<1, 3>>>>

(***************************************************************************)
(* Exact node matcher and splitter                                         *)
(***************************************************************************)

\* Python: coord in coordinates  (list membership by ==)
InList(coord, coordinates) == \E k \in 1..Len(coordinates) : coordinates[k] = coord

\* next((coord for coord in coordinates_a if coord in coordinates_b), None)
RECURSIVE ScanForward(_, _, _)
ScanForward(a, b, i) ==
    IF i > Len(a) THEN None
    ELSE IF InList(a[i], b) THEN a[i]
    ELSE ScanForward(a, b, i + 1)

\* next((coord for coord in reversed(coordinates_a) if coord in coordinates_b), None)
RECURSIVE ScanReversed(_, _, _)
ScanReversed(a, b, i) ==
    IF i < 1 THEN None
    ELSE IF InList(a[i], b) THEN a[i]
    ELSE ScanReversed(a, b, i - 1)

FindCommonNodesForwardOnly(a, b) ==
    <<ScanForward(a, b, 1), ScanForward(a, b, 1)>>

find_common_nodes(a, b) ==
    <<ScanForward(a, b, 1), ScanReversed(a, b, Len(a))>>

\* list.index(x): 1-based position of the first occurrence, 0 for ValueError
RECURSIVE ListIndexFrom(_, _, _)
ListIndexFrom(coordinates, x, i) ==
    IF i > Len(coordinates) THEN 0
    ELSE IF coordinates[i] = x THEN i
    ELSE ListIndexFrom(coordinates, x, i + 1)

ListIndex(coordinates, x) == ListIndexFrom(coordinates, x, 1)

ValueError == "ValueError"

SplitSegmentsExclusiveBefore(coordinates, first_common, last_common) ==
    LET index_first == ListIndex(coordinates, first_common)
        index_last  == ListIndex(coordinates, last_common)
    IN  IF index_first = 0 \/ index_last = 0 THEN <<ValueError>>
        ELSE << SubSeq(coordinates, 1, index_first - 1),
                SubSeq(coordinates, index_first, index_last),
                SubSeq(coordinates, index_last, Len(coordinates)) >>

\* coordinates[: index_first + 1], coordinates[index_first : index_last + 1],
\* coordinates[index_last :]   (0-based in the source, 1-based here)
split_segments(coordinates, first_common, last_common) ==
    LET index_first == ListIndex(coordinates, first_common)
        index_last  == ListIndex(coordinates, last_common)
    IN  IF index_first = 0 \/ index_last = 0 THEN <<ValueError>>
        ELSE << SubSeq(coordinates, 1, index_first),
                SubSeq(coordinates, index_first, index_last),
                SubSeq(coordinates, index_last, Len(coordinates)) >>

(***************************************************************************)
(* Rows, endpoint strings and Route Oracle answers                         *)
(***************************************************************************)

\* An endpoint is the string "lat,lon".  A string is held as the tuple of the
\* fields a split on "," yields, so "0.0,1.0" is <<"0.0", "1.0">> and
\* "0.0,1.0,5" has three fields.
HomeA == <<"0.0", "0.0">>
WorkA == <<"0.0", "2.0">>
HomeB == <<"0.0", "1.0">>
WorkB == <<"1.0", "1.0">>
OutOfRange == <<"95.0", "0.0">>
NotANumber == <<"x", "0.0">>
ThreeFields == <<"0.0", "0.0", "0.0">>

\* float(s) for the strings of the model; a string outside the table is not a number
FloatTable ==
    ("0.0" :> 0) @@ ("1.0" :> 1) @@ ("2.0" :> 2) @@ ("95.0" :> 95)

IsNumber(s) == s \in DOMAIN FloatTable

float(s) == FloatTable[s]

\* f"{x}" of a float
FormatFloat(x) == CHOOSE s \in DOMAIN FloatTable : FloatTable[s] = x

\* f"{x}" of the longitude a quarter of a lattice step east (q = 1) or west
\* (q = -1) of the lattice longitude lon
FormatOffLattice(lon, q) ==
    IF q = 1 THEN ToString(lon) \o ".25"
    ELSE IF lon >= 1 THEN ToString(lon - 1) \o ".75"
    ELSE "-0.25"

\* f"{coord[0]},{coord[1]}"; a point off the lattice is held as <<lat, lon, q>>
FormatCoord(coord) ==
    IF Len(coord) = 3
    THEN <<FormatFloat(coord[1]), FormatOffLattice(coord[2], coord[3])>>
    ELSE <<FormatFloat(coord[1]), FormatFloat(coord[2])>>

\* lat_str, lon_str = map(str.strip, endpoint.split(","))
UnpacksToTwo(endpoint) == Len(endpoint) = 2

\* a row as read_csv_file hands it to a row function
MappedRow(id, origin_a, destination_a, origin_b, destination_b) ==
    [ID |-> id, OriginA |-> origin_a, DestinationA |-> destination_a,
     OriginB |-> origin_b, DestinationB |-> destination_b]

Endpoints(row) == <<row.OriginA, row.DestinationA, row.OriginB, row.DestinationB>>

\* the endpoint quadruples the model feeds to the pipelines
InputEndpoints ==
    { <<HomeA, WorkA, HomeB, WorkB>>,            \* two different commutes
      <<HomeA, WorkA, HomeA, WorkA>>,            \* identical commutes
      <<HomeA, HomeA, HomeB, WorkB>>,            \* A does not move
      <<HomeA, WorkA, HomeB, HomeB>>,            \* B does not move
      <<HomeA, HomeA, HomeB, HomeB>>,            \* neither moves
      <<HomeA, HomeA, HomeA, HomeA>>,            \* identical and not moving
      <<OutOfRange, WorkA, HomeB, WorkB>>,       \* latitude 95
      <<NotANumber, WorkA, HomeB, WorkB>>,       \* latitude "x"
      <<ThreeFields, WorkA, HomeB, WorkB>>,      \* "0.0,0.0,0.0"
      <<NotANumber, WorkA, NotANumber, WorkA>> } \* identical, latitude "x"

InputRows == {MappedRow("R1", e[1], e[2], e[3], e[4]) : e \in InputEndpoints}

\* the polylines the oracle answers with in the row and batch specifications
RowRoutes ==
    { << <<0, 0>> >>,
      << <<0, 2>> >>,
      << <<0, 0>>, <<0, 1>> >>,
      << <<0, 1>>, <<0, 0>> >>,
      << <<0, 1>>, <<0, 2>> >>,
      << <<0, 0>>, <<0, 1>>, <<0, 2>> >>,
      << <<0, 0>>, <<0, 1>>, <<0, 0>> >>,
      << <<0, 2>>, <<0, 2>> >> }

\* legs[0].distance.value in metres and legs[0].duration.value in seconds
LegValues == { [meters |-> 1000, seconds |-> 120], [meters |-> 2000, seconds |-> 60] }

OkResponse(points, leg) ==
    [status |-> "OK", points |-> points, meters |-> leg.meters, seconds |-> leg.seconds]

FailedResponse == [status |-> "ZERO_RESULTS"]

\* answers to a request whose polyline the caller reads
RouteResponses ==
    {OkResponse(points, leg) : points \in RowRoutes, leg \in LegValues} \cup {FailedResponse}

\* answers to a request whose polyline the caller discards ("_, d, t = ...")
SegmentResponses ==
    {OkResponse(<< <<0, 0>>, <<0, 1>> >>, leg) : leg \in LegValues} \cup {FailedResponse}

Responses(use) == IF use = "polyline" THEN RouteResponses ELSE SegmentResponses

\* get_route_data: decode an answer into (coordinates, kilometres, minutes)
get_route_data(directions_data) ==
    IF directions_data.status = "OK"
    THEN <<directions_data.points, directions_data.meters \div 1000,
           directions_data.seconds \div 60>>
    ELSE <<<<>>, 0, 0>>

\* plot_routes(coordinates_a, coordinates_b, ...) substitutes route A for an
\* empty route B, divides by len(coordinates_a + coordinates_b) and indexes
\* coordinates_a[0]: it raises exactly when route A is empty.
PlotRoutesError(a, b) ==
    IF a # <<>> THEN "none"
    ELSE IF b = <<>> THEN "ZeroDivisionError"
    ELSE "IndexError"

\* (segment_value / total_value) * 100 if total_value > 0 else 0
compute_percentages(segment_value, total_value) ==
    IF total_value > 0 THEN (segment_value * 100) \div total_value ELSE 0

(***************************************************************************)
(* Result records and the outcome of a row function                        *)
(***************************************************************************)

\* None in an Optional[float] field of a result record
Null == -1

\* the endpoint fields of RouteBase, Optional[float] each
RouteBase(id, origin_a, destination_a, origin_b, destination_b) ==
    [ID |-> id,
     OriginAlat |-> origin_a[1], OriginAlong |-> origin_a[2],
     DestinationAlat |-> destination_a[1], DestinationAlong |-> destination_a[2],
     OriginBlat |-> origin_b[1], OriginBlong |-> origin_b[2],
     DestinationBlat |-> destination_b[1], DestinationBlong |-> destination_b[2]]

\* the model validates the four "lat", "lon" string pairs into floats
Validates(row) ==
    \A k \in 1..4 : \A f \in 1..Len(Endpoints(row)[k]) : IsNumber(Endpoints(row)[k][f])

ParsePair(endpoint) == <<float(endpoint[1]), float(endpoint[2])>>

ValidatedBase(row) ==
    RouteBase(row.ID, ParsePair(row.OriginA), ParsePair(row.DestinationA),
              ParsePair(row.OriginB), ParsePair(row.DestinationB))

\* safe_split(row.get("OriginA", "")): the pair of floats, or (None, None)
safe_split(endpoint) ==
    IF Len(endpoint) = 2 /\ IsNumber(endpoint[1]) /\ IsNumber(endpoint[2])
    THEN ParsePair(endpoint)
    ELSE <<Null, Null>>

\* the endpoint fields of the record built in an except handler
HandlerBase(row) ==
    RouteBase(row.ID, safe_split(row.OriginA), safe_split(row.DestinationA),
              safe_split(row.OriginB), safe_split(row.DestinationB))

TotalsFields(a_dist, a_time, b_dist, b_time) ==
    [aDist |-> a_dist, aTime |-> a_time, bDist |-> b_dist, bTime |-> b_time]

OverlapFields(dist, time) == [overlapDist |-> dist, overlapTime |-> time]

BeforeAfterFields(a_before, b_before, a_after, b_after) ==
    [aBeforeDist |-> a_before[1], aBeforeTime |-> a_before[2],
     bBeforeDist |-> b_before[1], bBeforeTime |-> b_before[2],
     aAfterDist |-> a_after[1], aAfterTime |-> a_after[2],
     bAfterDist |-> b_after[1], bAfterTime |-> b_after[2]]

\* FullOverlapResult(...).model_dump()
FullOverlapResult(base, totals, overlap, before_after) ==
    base @@ totals @@ overlap @@ before_after

FullOverlapNull(row) ==
    FullOverlapResult(HandlerBase(row), TotalsFields(Null, Null, Null, Null),
                      OverlapFields(Null, Null),
                      BeforeAfterFields(<<Null, Null>>, <<Null, Null>>,
                                        <<Null, Null>>, <<Null, Null>>))

\* SimpleOverlapResult(...).model_dump()
SimpleOverlapResult(base, totals, overlap) == base @@ totals @@ overlap

SimpleOverlapNull(row) ==
    SimpleOverlapResult(HandlerBase(row), TotalsFields(Null, Null, Null, Null),
                        OverlapFields(Null, Null))

\* what a row function does next, given the oracle answers it has received:
\* it issues one more request, returns its triple, or raises
NeedCall(use, origin, destination) ==
    [kind |-> "call", use |-> use, origin |-> origin, destination |-> destination]

Return(result, api_calls, api_errors) ==
    [kind |-> "return", result |-> result, api_calls |-> api_calls,
     api_errors |-> api_errors]

Raise(exc) == [kind |-> "raise", exc |-> exc]

\* a row function that returned None in place of its triple
ReturnedNone == [kind |-> "skipped"]

ExceptSkipsRow(skip_invalid, null_record, api_calls, exc) ==
    IF skip_invalid THEN ReturnedNone ELSE Raise(exc)

\* except Exception: if skip_invalid: return (null record, api_calls, 1) else: raise
Except(skip_invalid, null_record, api_calls, exc) ==
    IF skip_invalid THEN Return(null_record, api_calls, 1) ELSE Raise(exc)

\* the k-th answer received, decoded by get_route_data
Fetched(calls, k) == get_route_data(calls[k].response)

Last(s) == s[Len(s)]

(***************************************************************************)
(* Exact-node row functions                                                *)
(***************************************************************************)

\* process_row_overlap: commuting detail by common nodes
process_row_overlap(row, skip_invalid, calls) ==
    LET origin_a      == row.OriginA
        destination_a == row.DestinationA
        origin_b      == row.OriginB
        destination_b == row.DestinationB
        n             == Len(calls)
        except(api_calls, exc) ==
            Except(skip_invalid, FullOverlapNull(row), api_calls, exc)
        \* plot, then build the record
        finish(a, b, api_calls, result_fields) ==
            IF PlotRoutesError(a, b) # "none" THEN except(api_calls, PlotRoutesError(a, b))
            ELSE IF ~Validates(row) THEN except(api_calls, "ValidationError")
            ELSE Return(ValidatedBase(row) @@ result_fields, api_calls, 0)
    IN  IF \E k \in 1..4 : ~UnpacksToTwo(Endpoints(row)[k]) THEN except(0, "ValueError")
        ELSE IF origin_a = origin_b /\ destination_a = destination_b THEN
            IF n < 1 THEN NeedCall("polyline", origin_a, destination_a)
            ELSE LET a == Fetched(calls, 1)
                 IN  finish(a[1], <<>>, 1,
                            TotalsFields(a[2], a[3], a[2], a[3]) @@ OverlapFields(a[2], a[3])
                            @@ BeforeAfterFields(<<0, 0>>, <<0, 0>>, <<0, 0>>, <<0, 0>>))
        ELSE IF n < 1 THEN NeedCall("polyline", origin_a, destination_a)
        ELSE IF n < 2 THEN NeedCall("polyline", origin_b, destination_b)
        ELSE
            LET a      == Fetched(calls, 1)
                b      == Fetched(calls, 2)
                common == find_common_nodes(a[1], b[1])
            IN  IF common[1] = None \/ common[2] = None THEN
                    finish(a[1], b[1], 2,
                           TotalsFields(a[2], a[3], b[2], b[3]) @@ OverlapFields(0, 0)
                           @@ BeforeAfterFields(<<0, 0>>, <<0, 0>>, <<0, 0>>, <<0, 0>>))
                ELSE
                    LET parts_a  == split_segments(a[1], common[1], common[2])
                        parts_b  == split_segments(b[1], common[1], common[2])
                        before_a == parts_a[1]
                        overlap_a == parts_a[2]
                        after_a  == parts_a[3]
                        before_b == parts_b[1]
                        after_b  == parts_b[3]
                        seg(k)   == <<Fetched(calls, k)[2], Fetched(calls, k)[3]>>
                        after(part, k) == IF part # <<>> THEN seg(k) ELSE <<0, 0>>
                    IN  IF n < 3 THEN
                            NeedCall("metrics", origin_a, FormatCoord(Last(before_a)))
                        ELSE IF n < 4 THEN
                            NeedCall("metrics", FormatCoord(overlap_a[1]),
                                     FormatCoord(Last(overlap_a)))
                        ELSE IF n < 5 THEN
                            NeedCall("metrics", FormatCoord(after_a[1]), destination_a)
                        ELSE IF n < 6 THEN
                            NeedCall("metrics", origin_b, FormatCoord(Last(before_b)))
                        ELSE IF n < 7 THEN
                            NeedCall("metrics", FormatCoord(after_b[1]), destination_b)
                        ELSE
                            finish(a[1], b[1], 7,
                                   TotalsFields(a[2], a[3], b[2], b[3])
                                   @@ OverlapFields(seg(4)[1], seg(4)[2])
                                   @@ BeforeAfterFields(seg(3), seg(6),
                                                        after(after_a, 5), after(after_b, 7)))

\* map(float, map(str.strip, endpoint.split(","))) unpacked into two names
\* raises ValueError unless the endpoint is two numbers
ConvertsToFloats(row) ==
    \A k \in 1..4 : UnpacksToTwo(Endpoints(row)[k]) /\
                    \A f \in 1..2 : IsNumber(Endpoints(row)[k][f])

\* process_row_only_overlap: overlap alone by common nodes
process_row_only_overlap(row, skip_invalid, calls) ==
    LET origin_a      == row.OriginA
        destination_a == row.DestinationA
        origin_b      == row.OriginB
        destination_b == row.DestinationB
        n             == Len(calls)
        except(api_calls, exc) ==
            Except(skip_invalid, SimpleOverlapNull(row), api_calls, exc)
        finish(a, b, api_calls, result_fields) ==
            IF PlotRoutesError(a, b) # "none" THEN except(api_calls, PlotRoutesError(a, b))
            ELSE Return(ValidatedBase(row) @@ result_fields, api_calls, 0)
    IN  IF ~ConvertsToFloats(row) THEN except(0, "ValueError")
        ELSE IF origin_a = origin_b /\ destination_a = destination_b THEN
            IF n < 1 THEN NeedCall("polyline", origin_a, destination_a)
            ELSE LET a == Fetched(calls, 1)
                 IN  finish(a[1], <<>>, 1,
                            TotalsFields(a[2], a[3], a[2], a[3]) @@ OverlapFields(a[2], a[3]))
        ELSE IF n < 1 THEN NeedCall("polyline", origin_a, destination_a)
        ELSE IF n < 2 THEN NeedCall("polyline", origin_b, destination_b)
        ELSE
            LET a      == Fetched(calls, 1)
                b      == Fetched(calls, 2)
                common == find_common_nodes(a[1], b[1])
            IN  IF common[1] = None \/ common[2] = None THEN
                    finish(a[1], b[1], 2,
                           TotalsFields(a[2], a[3], b[2], b[3]) @@ OverlapFields(0, 0))
                ELSE
                    LET overlap_a == split_segments(a[1], common[1], common[2])[2]
                    IN  IF n < 3 THEN
                            NeedCall("metrics", FormatCoord(overlap_a[1]),
                                     FormatCoord(Last(overlap_a)))
                        ELSE
                            finish(a[1], b[1], 3,
                                   TotalsFields(a[2], a[3], b[2], b[3])
                                   @@ OverlapFields(Fetched(calls, 3)[2], Fetched(calls, 3)[3]))

(***************************************************************************)
(* Buffer corridors                                                        *)
(*                                                                         *)
(* Every polyline of the model lies on the parallel lat = 0 with its       *)
(* longitudes on a lattice, and the buffer radius is a quarter of the      *)
(* lattice step.  The buffer of a polyline is then the stadium around the  *)
(* interval [lo, hi] of its longitudes; two buffers intersect exactly when *)
(* their intervals do, in the stadium around the common interval; and a    *)
(* lattice point is within a stadium exactly when it is in its interval.   *)
(*                                                                         *)
(* The area functions are also applied to buffers of routes along the      *)
(* meridian lon = 0 whose points are on the parallels 0, 30 and 60 degrees *)
(* (lattice latitudes 0, 1, 2).  create_buffered_route buffers in the      *)
(* Mercator plane, so such a buffer has the same width in longitude at     *)
(* every latitude: a corridor between the southernmost and the northernmost*)
(* point, closed by two caps.                                              *)
(***************************************************************************)

Lons(route_coords) == {route_coords[k][2] : k \in 1..Len(route_coords)}

Stadium(lo, hi) == [lo |-> lo, hi |-> hi]

Corridor(south, north) == [south |-> south, north |-> north]

IsCorridor(polygon) == "south" \in DOMAIN polygon

EmptyGeometry == [empty |-> TRUE]

\* the outcome of a geometry function that raised
Raised(exc) == [raised |-> exc]

CreateBufferedRouteUnchecked(route_coords) ==
    IF route_coords = <<>> THEN Stadium(0, 0)
    ELSE Stadium(SetMin(Lons(route_coords)), SetMax(Lons(route_coords)))

\* create_buffered_route: ValueError for a route of fewer than 2 points
create_buffered_route(route_coords) ==
    IF route_coords = <<>> \/ Len(route_coords) < 2 THEN Raised(ValueError)
    ELSE Stadium(SetMin(Lons(route_coords)), SetMax(Lons(route_coords)))

\* buffer_a.intersection(buffer_b)
Intersection(buffer_a, buffer_b) ==
    IF IsCorridor(buffer_a) THEN
        LET south == IF buffer_a.south >= buffer_b.south THEN buffer_a.south
                     ELSE buffer_b.south
            north == IF buffer_a.north <= buffer_b.north THEN buffer_a.north
                     ELSE buffer_b.north
        IN  IF south <= north THEN Corridor(south, north) ELSE EmptyGeometry
    ELSE
        LET lo == IF buffer_a.lo >= buffer_b.lo THEN buffer_a.lo ELSE buffer_b.lo
            hi == IF buffer_a.hi <= buffer_b.hi THEN buffer_a.hi ELSE buffer_b.hi
        IN  IF lo <= hi THEN Stadium(lo, hi) ELSE EmptyGeometry

\* cos and sin of the lattice latitudes 0, 30 and 60 degrees, in thousandths
CosOf(lat) == <<1000, 866, 500>>[lat + 1]
SinOf(lat) == <<0, 500, 866>>[lat + 1]

\* polygon.area, the area in the plane of (lon, lat) degrees, in hundredths of
\* the squared radius: 2 r L + pi r^2 with a lattice step of 4 r.  A cap at
\* latitude lat is cos(lat) as high in degrees as it is at the equator.
PlanarArea(polygon) ==
    IF IsCorridor(polygon) THEN
        800 * (polygon.north - polygon.south)
            + (157 * (CosOf(polygon.south) + CosOf(polygon.north))) \div 1000
    ELSE 800 * (polygon.hi - polygon.lo) + 314

\* calculate_geodetic_area: the area on the ellipsoid, in the unit that gives
\* a buffer on the equator its planar area.  A strip of constant width in
\* longitude between two latitudes has an area proportional to the difference
\* of their sines (the lattice step is pi / 6), and a cap at latitude lat
\* shrinks by cos(lat) in each direction.
calculate_geodetic_area(polygon) ==
    IF IsCorridor(polygon) THEN
        (800 * 6 * (SinOf(polygon.north) - SinOf(polygon.south))) \div 3142
            + (157 * (CosOf(polygon.south) * CosOf(polygon.south)
                          + CosOf(polygon.north) * CosOf(polygon.north))) \div 1000000
    ELSE 800 * (polygon.hi - polygon.lo) + 314

\* calculate_area_ratios: the geodetic area of the intersection and its
\* percentage of each buffer, in tenths of a percent
calculate_area_ratios(buffer_a, buffer_b, intersection) ==
    LET intersection_area == calculate_geodetic_area(intersection)
        area_a            == calculate_geodetic_area(buffer_a)
        area_b            == calculate_geodetic_area(buffer_b)
    IN  [IntersectionArea |-> intersection_area,
         aAreaRatio |-> IF area_a > 0 THEN (intersection_area * 1000) \div area_a ELSE 0,
         bAreaRatio |-> IF area_b > 0 THEN (intersection_area * 1000) \div area_b ELSE 0]

\* intersection_area / area, in thousandths
AreaRatio(intersection, buffer) == (1000 * PlanarArea(intersection)) \div PlanarArea(buffer)

\* get_buffer_intersection(buffer_a, buffer_b): the intersection polygon, or a
\* falsy value when the buffers do not intersect
get_buffer_intersection(buffer_a, buffer_b) == Intersection(buffer_a, buffer_b)

\* Point(pt[1], pt[0]).within(polygon)
Within(pt, polygon) == polygon.lo <= pt[2] /\ pt[2] <= polygon.hi

NodesInsideUnfiltered(coords, polygon) == coords

\* [pt for pt in coords if Point(pt[1], pt[0]).within(polygon)]
NodesInside(coords, polygon) == SelectSeq(coords, LAMBDA pt : Within(pt, polygon))

\* plot_routes_and_buffers divides by len(route_a_coords + route_b_coords) and
\* indexes route_a_coords[0] and route_b_coords[0]
PlotRoutesAndBuffersError(a, b) ==
    IF a = <<>> /\ b = <<>> THEN "ZeroDivisionError"
    ELSE IF a = <<>> \/ b = <<>> THEN "IndexError"
    ELSE "none"

RatioFields(a_ratio, b_ratio) == [aIntersecRatio |-> a_ratio, bIntersecRatio |-> b_ratio]

\* the ratios the row function reports for two buffers: 0.0 for an empty
\* intersection, else intersection.area / buffer.area
IntersectionRatios(buffer_a, buffer_b) ==
    LET intersection == Intersection(buffer_a, buffer_b)
    IN  IF intersection = EmptyGeometry THEN RatioFields(0, 0)
        ELSE RatioFields(AreaRatio(intersection, buffer_a), AreaRatio(intersection, buffer_b))

\* IntersectionRatioResult(...).model_dump(); ratios in thousandths
IntersectionRatioResult(base, totals, ratios) == base @@ totals @@ ratios

IntersectionRatioNull(row) ==
    IntersectionRatioResult(HandlerBase(row), TotalsFields(Null, Null, Null, Null),
                            RatioFields(Null, Null))

\* process_row_route_buffers: ratios of the buffer intersection
process_row_route_buffers(row, skip_invalid, calls) ==
    LET origin_a      == row.OriginA
        destination_a == row.DestinationA
        origin_b      == row.OriginB
        destination_b == row.DestinationB
        n             == Len(calls)
        except(api_calls, exc) ==
            Except(skip_invalid, IntersectionRatioNull(row), api_calls, exc)
        result(api_calls, totals, ratios) ==
            Return(IntersectionRatioResult(ValidatedBase(row), totals, ratios), api_calls, 0)
    IN  IF ~ConvertsToFloats(row) THEN except(0, "ValueError")
        ELSE IF origin_a = destination_a /\ origin_b = destination_b THEN
            result(0, TotalsFields(0, 0, 0, 0), RatioFields(0, 0))
        ELSE IF origin_a = destination_a /\ origin_b # destination_b THEN
            IF n < 1 THEN NeedCall("metrics", origin_b, destination_b)
            ELSE result(1, TotalsFields(0, 0, Fetched(calls, 1)[2], Fetched(calls, 1)[3]),
                        RatioFields(0, 0))
        ELSE IF origin_a # destination_a /\ origin_b = destination_b THEN
            IF n < 1 THEN NeedCall("metrics", origin_a, destination_a)
            ELSE result(1, TotalsFields(Fetched(calls, 1)[2], Fetched(calls, 1)[3], 0, 0),
                        RatioFields(0, 0))
        ELSE IF n < 1 THEN NeedCall("polyline", origin_a, destination_a)
        ELSE IF n < 2 THEN NeedCall("polyline", origin_b, destination_b)
        ELSE
            LET a        == Fetched(calls, 1)
                b        == Fetched(calls, 2)
                buffer_a == create_buffered_route(a[1])
                buffer_b == create_buffered_route(b[1])
            IN  IF origin_a = origin_b /\ destination_a = destination_b THEN
                    IF buffer_a = Raised(ValueError) THEN except(2, ValueError)
                    ELSE IF PlotRoutesAndBuffersError(a[1], b[1]) # "none" THEN
                        except(2, PlotRoutesAndBuffersError(a[1], b[1]))
                    ELSE result(2, TotalsFields(a[2], a[3], a[2], a[3]),
                                RatioFields(1000, 1000))
                ELSE IF buffer_a = Raised(ValueError) \/ buffer_b = Raised(ValueError) THEN
                    except(2, ValueError)
                ELSE IF PlotRoutesAndBuffersError(a[1], b[1]) # "none" THEN
                    except(2, PlotRoutesAndBuffersError(a[1], b[1]))
                ELSE
                    result(2, TotalsFields(a[2], a[3], b[2], b[3]),
                           IntersectionRatios(buffer_a, buffer_b))

(***************************************************************************)
(* Boundary refinement by closest nodes                                    *)
(***************************************************************************)

DuringBeforeAfter(during, before, after) ==
    [during |-> during, before |-> before, after |-> after]

NoOverlap == DuringBeforeAfter(<<0, 0>>, <<0, 0>>, <<0, 0>>)

\* a refinement that has received all its answers: the metrics and the number
\* of requests it issued
Refined(metrics, requests) == [kind |-> "refined", metrics |-> metrics, requests |-> requests]

TravelSegmentsDuringFirst(route_coords, intersections, calls, k) ==
    LET n         == Len(calls)
        origin    == FormatCoord(route_coords[1])
        dest      == FormatCoord(Last(route_coords))
        start     == FormatCoord(intersections[1])
        end       == FormatCoord(Last(intersections))
        metric(j) == <<Fetched(calls, j)[2], Fetched(calls, j)[3]>>
    IN  IF Len(intersections) < 2 THEN
            IF Len(intersections) = 1 THEN
                IF n < k + 1 THEN NeedCall("metrics", origin, start)
                ELSE IF n < k + 2 THEN NeedCall("metrics", start, dest)
                ELSE Refined(DuringBeforeAfter(<<0, 0>>, metric(k + 1), metric(k + 2)), 2)
            ELSE Refined(NoOverlap, 0)
        ELSE IF n < k + 1 THEN NeedCall("metrics", start, end)
        ELSE IF n < k + 2 THEN NeedCall("metrics", origin, start)
        ELSE IF n < k + 3 THEN NeedCall("metrics", end, dest)
        ELSE Refined(DuringBeforeAfter(metric(k + 1), metric(k + 2), metric(k + 3)), 3)

\* calculate_precise_travel_segments(route_coords, intersections, ...), the
\* answers to its requests being calls[k + 1], calls[k + 2], ...
calculate_precise_travel_segments(route_coords, intersections, calls, k) ==
    LET n         == Len(calls)
        origin    == FormatCoord(route_coords[1])
        dest      == FormatCoord(Last(route_coords))
        start     == FormatCoord(intersections[1])
        end       == FormatCoord(Last(intersections))
        metric(j) == <<Fetched(calls, j)[2], Fetched(calls, j)[3]>>
    IN  IF Len(intersections) < 2 THEN
            IF Len(intersections) = 1 THEN
                IF n < k + 1 THEN NeedCall("metrics", origin, start)
                ELSE IF n < k + 2 THEN NeedCall("metrics", start, dest)
                ELSE Refined(DuringBeforeAfter(<<0, 0>>, metric(k + 1), metric(k + 2)), 2)
            ELSE Refined(NoOverlap, 0)
        ELSE IF n < k + 1 THEN NeedCall("metrics", origin, start)
        ELSE IF n < k + 2 THEN NeedCall("metrics", start, end)
        ELSE IF n < k + 3 THEN NeedCall("metrics", end, dest)
        ELSE Refined(DuringBeforeAfter(metric(k + 2), metric(k + 1), metric(k + 3)), 3)

DualOverlapFields(overlap_a, overlap_b) ==
    [aoverlapDist |-> overlap_a.during[1], aoverlapTime |-> overlap_a.during[2],
     boverlapDist |-> overlap_b.during[1], boverlapTime |-> overlap_b.during[2]]

DualBeforeAfterFields(overlap_a, overlap_b) ==
    [aBeforeDist |-> overlap_a.before[1], aBeforeTime |-> overlap_a.before[2],
     aAfterDist |-> overlap_a.after[1], aAfterTime |-> overlap_a.after[2],
     bBeforeDist |-> overlap_b.before[1], bBeforeTime |-> overlap_b.before[2],
     bAfterDist |-> overlap_b.after[1], bAfterTime |-> overlap_b.after[2]]

\* DetailedDualOverlapResult(...).model_dump()
DetailedDualOverlapResult(base, totals, overlap_a, overlap_b) ==
    base @@ totals @@ DualOverlapFields(overlap_a, overlap_b)
         @@ DualBeforeAfterFields(overlap_a, overlap_b)

AllNull == DuringBeforeAfter(<<Null, Null>>, <<Null, Null>>, <<Null, Null>>)

DetailedDualOverlapNull(row) ==
    DetailedDualOverlapResult(HandlerBase(row), TotalsFields(Null, Null, Null, Null),
                              AllNull, AllNull)

\* process_row_closest_nodes: before, during and after travel of both routes
\* between the first and last of their own nodes inside the buffer intersection
process_row_closest_nodes(row, skip_invalid, calls) ==
    LET origin_a      == row.OriginA
        destination_a == row.DestinationA
        origin_b      == row.OriginB
        destination_b == row.DestinationB
        n             == Len(calls)
        except(api_calls, exc) ==
            Except(skip_invalid, DetailedDualOverlapNull(row), api_calls, exc)
        result(api_calls, totals, overlap_a, overlap_b) ==
            Return(DetailedDualOverlapResult(ValidatedBase(row), totals, overlap_a, overlap_b),
                   api_calls, 0)
    IN  IF ~ConvertsToFloats(row) THEN except(0, "ValueError")
        ELSE IF origin_a = destination_a /\ origin_b = destination_b THEN
            result(0, TotalsFields(0, 0, 0, 0), NoOverlap, NoOverlap)
        ELSE IF origin_a = destination_a /\ origin_b # destination_b THEN
            IF n < 1 THEN NeedCall("metrics", origin_b, destination_b)
            ELSE result(1, TotalsFields(0, 0, Fetched(calls, 1)[2], Fetched(calls, 1)[3]),
                        NoOverlap, NoOverlap)
        ELSE IF origin_a # destination_a /\ origin_b = destination_b THEN
            IF n < 1 THEN NeedCall("metrics", origin_a, destination_a)
            ELSE result(1, TotalsFields(Fetched(calls, 1)[2], Fetched(calls, 1)[3], 0, 0),
                        NoOverlap, NoOverlap)
        ELSE IF origin_a = origin_b /\ destination_a = destination_b THEN
            IF n < 1 THEN NeedCall("polyline", origin_a, destination_a)
            ELSE LET a == Fetched(calls, 1)
                     whole == DuringBeforeAfter(<<a[2], a[3]>>, <<0, 0>>, <<0, 0>>)
                 IN  IF create_buffered_route(a[1]) = Raised(ValueError) THEN
                         except(1, ValueError)
                     ELSE IF PlotRoutesAndBuffersError(a[1], a[1]) # "none" THEN
                         except(1, PlotRoutesAndBuffersError(a[1], a[1]))
                     ELSE result(1, TotalsFields(a[2], a[3], a[2], a[3]), whole, whole)
        ELSE IF n < 1 THEN NeedCall("polyline", origin_a, destination_a)
        ELSE IF n < 2 THEN NeedCall("polyline", origin_b, destination_b)
        ELSE
            LET a        == Fetched(calls, 1)
                b        == Fetched(calls, 2)
                coords_a == a[1]
                coords_b == b[1]
                buffer_a == create_buffered_route(coords_a)
                buffer_b == create_buffered_route(coords_b)
                totals   == TotalsFields(a[2], a[3], b[2], b[3])
            IN  IF buffer_a = Raised(ValueError) \/ buffer_b = Raised(ValueError) THEN
                    except(2, ValueError)
                ELSE IF PlotRoutesAndBuffersError(coords_a, coords_b) # "none" THEN
                    except(2, PlotRoutesAndBuffersError(coords_a, coords_b))
                ELSE
                    LET intersection_polygon == get_buffer_intersection(buffer_a, buffer_b)
                    IN  IF intersection_polygon = EmptyGeometry THEN
                            result(2, totals, NoOverlap, NoOverlap)
                        ELSE
                            LET nodes_inside_a == NodesInside(coords_a, intersection_polygon)
                                nodes_inside_b == NodesInside(coords_b, intersection_polygon)
                                overlap_a ==
                                    IF Len(nodes_inside_a) >= 2
                                    THEN calculate_precise_travel_segments(
                                             coords_a,
                                             <<nodes_inside_a[1], Last(nodes_inside_a)>>, calls, 2)
                                    ELSE Refined(NoOverlap, 0)
                                counted_a == IF Len(nodes_inside_a) >= 2 THEN 1 ELSE 0
                                counted_b == IF Len(nodes_inside_b) >= 2 THEN 1 ELSE 0
                            IN  IF overlap_a.kind = "call" THEN overlap_a
                                ELSE
                                    LET overlap_b ==
                                            IF Len(nodes_inside_b) >= 2
                                            THEN calculate_precise_travel_segments(
                                                     coords_b,
                                                     <<nodes_inside_b[1], Last(nodes_inside_b)>>,
                                                     calls, 2 + overlap_a.requests)
                                            ELSE Refined(NoOverlap, 0)
                                    IN  IF overlap_b.kind = "call" THEN overlap_b
                                        ELSE result(2 + counted_a + counted_b, totals,
                                                    overlap_a.metrics, overlap_b.metrics)

(***************************************************************************)
(* Segment rectangles                                                      *)
(*                                                                         *)
(* The segments of the model run along a parallel or a meridian of the     *)
(* lattice, so the rectangle around a segment has its sides on the axes.   *)
(* A rectangle corner is held in quarters of the lattice step, the lattice *)
(* step being one degree.                                                  *)
(***************************************************************************)

\* corner coordinates per degree
Scale == 4

\* 111_111 metres per degree of latitude
MetresPerDegree == 111111

Abs(x) == IF x < 0 THEN 0 - x ELSE x

\* (dx**2 + dy**2) ** 0.5 of a segment along an axis
Magnitude(dx, dy) == Abs(dx) + Abs(dy)

\* width / 2 / 111_111, in corner units
HalfWidth(width) == (Scale * width) \div (2 * MetresPerDegree)

ZeroDivisionError == "ZeroDivisionError"

\* the list a geometry function returned
Returned(list) == [list |-> list]

\* Polygon(coords)
Polygon(coords) == [exterior |-> coords]

\* calculate_rectangle_coordinates: the five corners, the first one repeated
calculate_rectangle_coordinates(start, end, width) ==
    LET dx        == end[2] - start[2]
        dy        == end[1] - start[1]
        magnitude == Magnitude(dx, dy)
    IN  IF magnitude = 0 THEN Raised(ZeroDivisionError)
        ELSE
            LET unit_dx      == dx \div magnitude
                unit_dy      == dy \div magnitude
                perp_dx      == 0 - unit_dy
                perp_dy      == unit_dx
                half_width   == HalfWidth(width)
                offset_x     == perp_dx * half_width
                offset_y     == perp_dy * half_width
                bottom_left  == <<Scale * start[1] - offset_y, Scale * start[2] - offset_x>>
                top_left     == <<Scale * start[1] + offset_y, Scale * start[2] + offset_x>>
                bottom_right == <<Scale * end[1] - offset_y, Scale * end[2] - offset_x>>
                top_right    == <<Scale * end[1] + offset_y, Scale * end[2] + offset_x>>
            IN  Returned(<<bottom_left, top_left, top_right, bottom_right, bottom_left>>)

\* a segment label: f"{label_prefix}{i + 1}" as <<label_prefix, i + 1>>
Label(label_prefix, k) == <<label_prefix, k>>

\* label.startswith(prefix)
StartsWith(label, prefix) == label[1] = prefix

\* calculate_distances: the labelled segments of a polyline (the great-circle
\* length of a segment is not used by the rectangle pipeline)
calculate_distances(segment, label_prefix) ==
    IF Len(segment) < 2 THEN <<>>
    ELSE [i \in 1..(Len(segment) - 1) |->
             [label |-> Label(label_prefix, i), start |-> segment[i], end |-> segment[i + 1]]]

\* calculate_segment_distances(before, after)
calculate_segment_distances(before, after) ==
    [before_segments |-> calculate_distances(before, "t"),
     after_segments  |-> calculate_distances(after, "T")]

CreateRectanglesOfNonZeroSegments(segments, width) ==
    LET coords(k) == calculate_rectangle_coordinates(segments[k].start, segments[k].end, width)
        HasLength(segment) == segment.start # segment.end
        kept == SelectSeq(segments, HasLength)
    IN  Returned([k \in 1..Len(kept) |->
                     [label |-> kept[k].label,
                      rectangle |->
                          Polygon(calculate_rectangle_coordinates(kept[k].start, kept[k].end,
                                                                  width).list)]])

\* create_segment_rectangles: one labelled rectangle per segment, or the
\* ZeroDivisionError of the first segment of length zero
create_segment_rectangles(segments, width) ==
    LET coords(k) == calculate_rectangle_coordinates(segments[k].start, segments[k].end, width)
    IN  IF \E k \in 1..Len(segments) : coords(k) = Raised(ZeroDivisionError)
        THEN Raised(ZeroDivisionError)
        ELSE Returned([k \in 1..Len(segments) |->
                          [label |-> segments[k].label,
                           rectangle |-> Polygon(coords(k).list)]])

\* the sides of a rectangle of the model
Lats(polygon) == {polygon.exterior[k][1] : k \in 1..Len(polygon.exterior)}
LonsOf(polygon) == {polygon.exterior[k][2] : k \in 1..Len(polygon.exterior)}

Box(polygon) ==
    [south |-> SetMin(Lats(polygon)), north |-> SetMax(Lats(polygon)),
     west  |-> SetMin(LonsOf(polygon)), east |-> SetMax(LonsOf(polygon))]

\* polygon.area of a rectangle, in squared corner units
RectangleArea(polygon) ==
    LET box == Box(polygon)
    IN  (box.north - box.south) * (box.east - box.west)

Larger(x, y) == IF x >= y THEN x ELSE y
Smaller(x, y) == IF x <= y THEN x ELSE y

\* polygon_a.intersection(polygon_b): the common box, which has area 0 when
\* the rectangles only touch or when one of them has no width
RectangleIntersection(polygon_a, polygon_b) ==
    LET a     == Box(polygon_a)
        b     == Box(polygon_b)
        south == Larger(a.south, b.south)
        north == Smaller(a.north, b.north)
        west  == Larger(a.west, b.west)
        east  == Smaller(a.east, b.east)
    IN  IF south > north \/ west > east THEN EmptyGeometry
        ELSE Polygon(<<<<south, west>>, <<north, west>>, <<north, east>>, <<south, east>>,
                       <<south, west>>>>)

\* a percentage is held in hundredths of a percent
Percent(p) == 100 * p

OverlapRatioOverA(polygon_a, polygon_b) ==
    LET intersection == RectangleIntersection(polygon_a, polygon_b)
    IN  IF intersection = EmptyGeometry THEN 0
        ELSE IF RectangleArea(polygon_a) > 0
             THEN (Percent(100) * RectangleArea(intersection)) \div RectangleArea(polygon_a)
             ELSE 0

\* calculate_overlap_ratio: the overlap as a percentage of the smaller rectangle
calculate_overlap_ratio(polygon_a, polygon_b) ==
    LET intersection == RectangleIntersection(polygon_a, polygon_b)
    IN  IF intersection = EmptyGeometry THEN 0
        ELSE
            LET overlap_area == RectangleArea(intersection)
                smaller_area == Smaller(RectangleArea(polygon_a), RectangleArea(polygon_b))
            IN  IF smaller_area > 0 THEN (Percent(100) * overlap_area) \div smaller_area
                ELSE 0

\* [rect for rect in rectangles if rect["label"].startswith(prefix)]
WithPrefix(rectangles, prefix) ==
    SelectSeq(rectangles, LAMBDA rect : StartsWith(rect.label, prefix))

RetainedStrictly(overlap_ratio, threshold) == overlap_ratio > threshold

\* if overlap_ratio >= threshold
Retained(overlap_ratio, threshold) == overlap_ratio >= threshold

\* the inner loop over rects_b for one rect_a, from index j on
RECURSIVE FilterInner(_, _, _, _)
FilterInner(rect_a, rects_b, threshold, j) ==
    IF j > Len(rects_b) THEN <<>>
    ELSE LET overlap_ratio == calculate_overlap_ratio(rect_a.rectangle, rects_b[j].rectangle)
             rest          == FilterInner(rect_a, rects_b, threshold, j + 1)
         IN  IF Retained(overlap_ratio, threshold)
             THEN <<<<rect_a.label, rects_b[j].label, overlap_ratio>>>> \o rest
             ELSE rest

\* for rect_a in rects_a: for rect_b in rects_b: ..., from index i on
RECURSIVE FilterOuter(_, _, _, _)
FilterOuter(rects_a, rects_b, threshold, i) ==
    IF i > Len(rects_a) THEN <<>>
    ELSE FilterInner(rects_a[i], rects_b, threshold, 1)
             \o FilterOuter(rects_a, rects_b, threshold, i + 1)

\* filter_combinations_by_overlap(rectangles_a, rectangles_b, threshold)
filter_combinations_by_overlap(rectangles_a, rectangles_b, threshold) ==
    [before_combinations |->
         FilterOuter(WithPrefix(rectangles_a, "t"), WithPrefix(rectangles_b, "t"), threshold, 1),
     after_combinations |->
         FilterOuter(WithPrefix(rectangles_a, "T"), WithPrefix(rectangles_b, "T"), threshold, 1)]

(***************************************************************************)
(* Rectangle row functions                                                 *)
(***************************************************************************)

\* None where the other value is a dictionary
NoneDict == [none |-> TRUE]

\* get_segment_by_label: the first entry with the label, or None
get_segment_by_label(rectangles, label) ==
    IF \E k \in 1..Len(rectangles) : rectangles[k].label = label
    THEN rectangles[CHOOSE k \in 1..Len(rectangles) :
                        /\ rectangles[k].label = label
                        /\ \A j \in 1..(k - 1) : rectangles[j].label # label]
    ELSE NoneDict

FindBoundaryNodesOfFirstPairs(filtered_combinations, rectangles_a, rectangles_b) ==
    LET before == filtered_combinations.before_combinations
        after  == filtered_combinations.after_combinations
        node(combination, corner) ==
            [label_a |-> combination[1],
             node_a  |-> get_segment_by_label(rectangles_a, combination[1])
                             .rectangle.exterior[corner],
             label_b |-> combination[2],
             node_b  |-> get_segment_by_label(rectangles_b, combination[2])
                             .rectangle.exterior[corner]]
    IN  [first_node_before_overlap |->
             IF before # <<>> THEN node(before[1], 1) ELSE NoneDict,
         last_node_after_overlap |->
             IF after # <<>> THEN node(after[1], 4) ELSE NoneDict]

\* find_overlap_boundary_nodes: the first corner of the rectangles of the first
\* retained before pair, and the second-to-last corner of the rectangles of the
\* last retained after pair
find_overlap_boundary_nodes(filtered_combinations, rectangles_a, rectangles_b) ==
    LET before == filtered_combinations.before_combinations
        after  == filtered_combinations.after_combinations
        node(combination, corner) ==
            LET segment_a == get_segment_by_label(rectangles_a, combination[1])
                segment_b == get_segment_by_label(rectangles_b, combination[2])
            IN  IF segment_a # NoneDict /\ segment_b # NoneDict
                THEN [label_a |-> segment_a.label,
                      node_a  |-> segment_a.rectangle.exterior[corner],
                      label_b |-> segment_b.label,
                      node_b  |-> segment_b.rectangle.exterior[corner]]
                ELSE NoneDict
    IN  [first_node_before_overlap |->
             IF before # <<>> THEN node(before[1], 1) ELSE NoneDict,
         last_node_after_overlap |->
             IF after # <<>> THEN node(Last(after), 4) ELSE NoneDict]

\* a lattice coordinate in the units of the rectangle corners
InCornerUnits(coord) == <<Scale * coord[1], Scale * coord[2]>>

\* f"{x}" of a corner coordinate
FormatCornerFloat(x) ==
    (IF x < 0 THEN "-" ELSE "") \o ToString(Abs(x) \div Scale) \o "."
        \o <<"0", "25", "5", "75">>[(Abs(x) % Scale) + 1]

\* f"{node[0]},{node[1]}"
FormatNode(node) == <<FormatCornerFloat(node[1]), FormatCornerFloat(node[2])>>

\* the width and the threshold the batch entry points hand to the row
\* functions: one degree, and the default of 50 percent
RowWidth == MetresPerDegree
RowThreshold == Percent(50)

\* the labelled segments a row function hands to create_segment_rectangles
LabelledSegments(parts) ==
    calculate_segment_distances(parts[1], parts[3]).before_segments
        \o calculate_segment_distances(parts[1], parts[3]).after_segments

OrFirstCommonNode(boundary_nodes, common) ==
    IF \/ boundary_nodes.first_node_before_overlap = NoneDict
       \/ boundary_nodes.last_node_after_overlap = NoneDict
    THEN [first_node_before_overlap |->
              [node_a |-> InCornerUnits(common[1]), node_b |-> InCornerUnits(common[1])],
          last_node_after_overlap |->
              [node_a |-> InCornerUnits(common[1]), node_b |-> InCornerUnits(common[1])]]
    ELSE boundary_nodes

OrCommonNodePerSide(boundary_nodes, common) ==
    [first_node_before_overlap |->
         IF boundary_nodes.first_node_before_overlap = NoneDict
         THEN [node_a |-> InCornerUnits(common[1]), node_b |-> InCornerUnits(common[1])]
         ELSE boundary_nodes.first_node_before_overlap,
     last_node_after_overlap |->
         IF boundary_nodes.last_node_after_overlap = NoneDict
         THEN [node_a |-> InCornerUnits(common[2]), node_b |-> InCornerUnits(common[2])]
         ELSE boundary_nodes.last_node_after_overlap]

\* if not first_node_before_overlap or not last_node_after_overlap: the common
\* nodes stand in for both boundary nodes of both routes
OrCommonNodes(boundary_nodes, common) ==
    IF \/ boundary_nodes.first_node_before_overlap = NoneDict
       \/ boundary_nodes.last_node_after_overlap = NoneDict
    THEN [first_node_before_overlap |->
              [node_a |-> InCornerUnits(common[1]), node_b |-> InCornerUnits(common[1])],
          last_node_after_overlap |->
              [node_a |-> InCornerUnits(common[2]), node_b |-> InCornerUnits(common[2])]]
    ELSE boundary_nodes

\* the boundary nodes that the rectangles of the two routes give
RectangleBoundaryNodes(rectangles_a, rectangles_b, common) ==
    IF rectangles_a = Raised(ZeroDivisionError) \/ rectangles_b = Raised(ZeroDivisionError)
    THEN Raised(ZeroDivisionError)
    ELSE OrCommonNodes(
             find_overlap_boundary_nodes(
                 filter_combinations_by_overlap(rectangles_a.list, rectangles_b.list,
                                                RowThreshold),
                 rectangles_a.list, rectangles_b.list),
             common)

\* the boundary nodes of a row, or the ZeroDivisionError of a segment of
\* length zero
BoundaryNodes(parts_a, parts_b, common) ==
    RectangleBoundaryNodes(create_segment_rectangles(LabelledSegments(parts_a), RowWidth),
                           create_segment_rectangles(LabelledSegments(parts_b), RowWidth),
                           common)

\* process_row_overlap_rec_multiproc: commuting detail by segment rectangles
process_row_overlap_rec_multiproc(row, skip_invalid, calls) ==
    LET origin_a      == row.OriginA
        destination_a == row.DestinationA
        origin_b      == row.OriginB
        destination_b == row.DestinationB
        n             == Len(calls)
        except(api_calls, exc) ==
            Except(skip_invalid, FullOverlapNull(row), api_calls, exc)
        finish(a, b, api_calls, result_fields) ==
            IF PlotRoutesError(a, b) # "none" THEN except(api_calls, PlotRoutesError(a, b))
            ELSE Return(ValidatedBase(row) @@ result_fields, api_calls, 0)
    IN  IF ~ConvertsToFloats(row) THEN except(0, "ValueError")
        ELSE IF origin_a = origin_b /\ destination_a = destination_b THEN
            IF n < 1 THEN NeedCall("polyline", origin_a, destination_a)
            ELSE LET a == Fetched(calls, 1)
                 IN  finish(a[1], <<>>, 1,
                            TotalsFields(a[2], a[3], a[2], a[3]) @@ OverlapFields(a[2], a[3])
                            @@ BeforeAfterFields(<<0, 0>>, <<0, 0>>, <<0, 0>>, <<0, 0>>))
        ELSE IF n < 1 THEN NeedCall("polyline", origin_a, destination_a)
        ELSE IF n < 2 THEN NeedCall("polyline", origin_b, destination_b)
        ELSE
            LET a      == Fetched(calls, 1)
                b      == Fetched(calls, 2)
                common == find_common_nodes(a[1], b[1])
            IN  IF common[1] = None \/ common[2] = None THEN
                    finish(a[1], b[1], 2,
                           TotalsFields(a[2], a[3], b[2], b[3]) @@ OverlapFields(0, 0)
                           @@ BeforeAfterFields(<<0, 0>>, <<0, 0>>, <<0, 0>>, <<0, 0>>))
                ELSE
                    LET seg(k) == <<Fetched(calls, k)[2], Fetched(calls, k)[3]>>
                        steps(first, last) ==
                            IF n < 3 THEN
                                NeedCall("metrics", origin_a, FormatNode(first.node_a))
                            ELSE IF n < 4 THEN
                                NeedCall("metrics", FormatNode(first.node_a),
                                         FormatNode(last.node_a))
                            ELSE IF n < 5 THEN
                                NeedCall("metrics", FormatNode(last.node_a), destination_a)
                            ELSE IF n < 6 THEN
                                NeedCall("metrics", origin_b, FormatNode(first.node_b))
                            ELSE IF n < 7 THEN
                                NeedCall("metrics", FormatNode(last.node_b), destination_b)
                            ELSE
                                finish(a[1], b[1], 7,
                                       TotalsFields(a[2], a[3], b[2], b[3])
                                       @@ OverlapFields(seg(4)[1], seg(4)[2])
                                       @@ BeforeAfterFields(seg(3), seg(6), seg(5), seg(7)))
                        after_rectangles(boundary_nodes) ==
                            IF boundary_nodes = Raised(ZeroDivisionError)
                            THEN except(2, ZeroDivisionError)
                            ELSE steps(boundary_nodes.first_node_before_overlap,
                                       boundary_nodes.last_node_after_overlap)
                    IN  after_rectangles(
                            BoundaryNodes(split_segments(a[1], common[1], common[2]),
                                          split_segments(b[1], common[1], common[2]),
                                          common))

\* process_row_only_overlap_rec: overlap alone by segment rectangles
process_row_only_overlap_rec(row, skip_invalid, calls) ==
    LET origin_a      == row.OriginA
        destination_a == row.DestinationA
        origin_b      == row.OriginB
        destination_b == row.DestinationB
        n             == Len(calls)
        except(api_calls, exc) ==
            Except(skip_invalid, SimpleOverlapNull(row), api_calls, exc)
        finish(a, b, api_calls, result_fields) ==
            IF PlotRoutesError(a, b) # "none" THEN except(api_calls, PlotRoutesError(a, b))
            ELSE Return(ValidatedBase(row) @@ result_fields, api_calls, 0)
    IN  IF ~ConvertsToFloats(row) THEN except(0, "ValueError")
        ELSE IF origin_a = origin_b /\ destination_a = destination_b THEN
            IF n < 1 THEN NeedCall("polyline", origin_a, destination_a)
            ELSE LET a == Fetched(calls, 1)
                 IN  finish(a[1], <<>>, 1,
                            TotalsFields(a[2], a[3], a[2], a[3]) @@ OverlapFields(a[2], a[3]))
        ELSE IF n < 1 THEN NeedCall("polyline", origin_a, destination_a)
        ELSE IF n < 2 THEN NeedCall("polyline", origin_b, destination_b)
        ELSE
            LET a      == Fetched(calls, 1)
                b      == Fetched(calls, 2)
                common == find_common_nodes(a[1], b[1])
            IN  IF common[1] = None \/ common[2] = None THEN
                    finish(a[1], b[1], 2,
                           TotalsFields(a[2], a[3], b[2], b[3]) @@ OverlapFields(0, 0))
                ELSE
                    LET steps(first, last) ==
                            IF n < 3 THEN
                                NeedCall("metrics", FormatNode(first.node_a),
                                         FormatNode(last.node_a))
                            ELSE IF n < 4 THEN
                                NeedCall("metrics", FormatNode(first.node_b),
                                         FormatNode(last.node_b))
                            ELSE
                                finish(a[1], b[1], 4,
                                       TotalsFields(a[2], a[3], b[2], b[3])
                                       @@ OverlapFields(Fetched(calls, 3)[2],
                                                        Fetched(calls, 3)[3]))
                        after_rectangles(boundary_nodes) ==
                            IF boundary_nodes = Raised(ZeroDivisionError)
                            THEN except(2, ZeroDivisionError)
                            ELSE steps(boundary_nodes.first_node_before_overlap,
                                       boundary_nodes.last_node_after_overlap)
                    IN  after_rectangles(
                            BoundaryNodes(split_segments(a[1], common[1], common[2]),
                                          split_segments(b[1], common[1], common[2]),
                                          common))

(***************************************************************************)
(* Boundary refinement: the overlap-only closest-node pipeline and the     *)
(* exact-intersection pipelines                                            *)
(*                                                                         *)
(* The boundary of the stadium around [lo, hi] meets the parallel lat = 0  *)
(* a buffer radius west of lo and a buffer radius east of hi, so a segment *)
(* of a polyline crosses it between two lattice longitudes.                *)
(***************************************************************************)

\* SimpleDualOverlapResult(...).model_dump()
SimpleDualOverlapResult(base, totals, overlap_a, overlap_b) ==
    base @@ totals @@ DualOverlapFields(overlap_a, overlap_b)

SimpleDualOverlapNull(row) ==
    SimpleDualOverlapResult(HandlerBase(row), TotalsFields(Null, Null, Null, Null),
                            AllNull, AllNull)

\* both routes refined: their metrics and the number of routes that had at
\* least 2 qualifying points
BothRefined(overlap_a, overlap_b, counted) ==
    [kind |-> "both", a |-> overlap_a, b |-> overlap_b, counted |-> counted]

\* if len(points_a) >= 2: api_calls += 1; calculate_precise_travel_segments(
\* coords_a, [entry_a, exit_a]) else zeros; then the same for route B.  The
\* answers to the requests are calls[3], calls[4], ...
RefineBoth(coords_a, points_a, coords_b, points_b, calls) ==
    LET overlap_a ==
            IF Len(points_a) >= 2
            THEN calculate_precise_travel_segments(coords_a,
                                                   <<points_a[1], Last(points_a)>>, calls, 2)
            ELSE Refined(NoOverlap, 0)
        counted_a == IF Len(points_a) >= 2 THEN 1 ELSE 0
        counted_b == IF Len(points_b) >= 2 THEN 1 ELSE 0
    IN  IF overlap_a.kind = "call" THEN overlap_a
        ELSE
            LET overlap_b ==
                    IF Len(points_b) >= 2
                    THEN calculate_precise_travel_segments(coords_b,
                                                           <<points_b[1], Last(points_b)>>,
                                                           calls, 2 + overlap_a.requests)
                    ELSE Refined(NoOverlap, 0)
            IN  IF overlap_b.kind = "call" THEN overlap_b
                ELSE BothRefined(overlap_a.metrics, overlap_b.metrics, counted_a + counted_b)

\* process_row_closest_nodes_simple: the overlap of both routes between the
\* first and last of their own nodes inside the buffer intersection
process_row_closest_nodes_simple(row, skip_invalid, calls) ==
    LET origin_a      == row.OriginA
        destination_a == row.DestinationA
        origin_b      == row.OriginB
        destination_b == row.DestinationB
        n             == Len(calls)
        except(api_calls, exc) ==
            Except(skip_invalid, SimpleDualOverlapNull(row), api_calls, exc)
        result(api_calls, totals, overlap_a, overlap_b) ==
            Return(SimpleDualOverlapResult(ValidatedBase(row), totals, overlap_a, overlap_b),
                   api_calls, 0)
    IN  IF ~ConvertsToFloats(row) THEN except(0, "ValueError")
        ELSE IF origin_a = destination_a /\ origin_b = destination_b THEN
            result(0, TotalsFields(0, 0, 0, 0), NoOverlap, NoOverlap)
        ELSE IF origin_a = destination_a THEN
            IF n < 1 THEN NeedCall("metrics", origin_b, destination_b)
            ELSE result(1, TotalsFields(0, 0, Fetched(calls, 1)[2], Fetched(calls, 1)[3]),
                        NoOverlap, NoOverlap)
        ELSE IF origin_b = destination_b THEN
            IF n < 1 THEN NeedCall("metrics", origin_a, destination_a)
            ELSE result(1, TotalsFields(Fetched(calls, 1)[2], Fetched(calls, 1)[3], 0, 0),
                        NoOverlap, NoOverlap)
        ELSE IF n < 1 THEN NeedCall("polyline", origin_a, destination_a)
        ELSE IF n < 2 THEN NeedCall("polyline", origin_b, destination_b)
        ELSE
            LET a        == Fetched(calls, 1)
                b        == Fetched(calls, 2)
                coords_a == a[1]
                coords_b == b[1]
                buffer_a == create_buffered_route(coords_a)
                whole    == DuringBeforeAfter(<<a[2], a[3]>>, <<0, 0>>, <<0, 0>>)
                totals   == TotalsFields(a[2], a[3], b[2], b[3])
                refined(both) ==
                    IF both.kind = "call" THEN both
                    ELSE result(2 + both.counted, totals, both.a, both.b)
            IN  IF origin_a = origin_b /\ destination_a = destination_b THEN
                    IF buffer_a = Raised(ValueError) THEN except(2, ValueError)
                    ELSE IF PlotRoutesAndBuffersError(coords_a, coords_b) # "none" THEN
                        except(2, PlotRoutesAndBuffersError(coords_a, coords_b))
                    ELSE result(2, TotalsFields(a[2], a[3], a[2], a[3]), whole, whole)
                ELSE IF buffer_a = Raised(ValueError)
                        \/ create_buffered_route(coords_b) = Raised(ValueError) THEN
                    except(2, ValueError)
                ELSE IF PlotRoutesAndBuffersError(coords_a, coords_b) # "none" THEN
                    except(2, PlotRoutesAndBuffersError(coords_a, coords_b))
                ELSE IF get_buffer_intersection(buffer_a, create_buffered_route(coords_b))
                            = EmptyGeometry THEN
                    result(2, totals, NoOverlap, NoOverlap)
                ELSE
                    refined(RefineBoth(
                        coords_a,
                        NodesInside(coords_a, get_buffer_intersection(
                                                  buffer_a, create_buffered_route(coords_b))),
                        coords_b,
                        NodesInside(coords_b, get_buffer_intersection(
                                                  buffer_a, create_buffered_route(coords_b))),
                        calls))

\* the points where the segment from longitude x to longitude y crosses the
\* boundary of the polygon, in the order of travel
Crossings(lat, x, y, polygon) ==
    LET west == IF Smaller(x, y) < polygon.lo /\ Larger(x, y) >= polygon.lo
                THEN << <<lat, polygon.lo, -1>> >> ELSE <<>>
        east == IF Smaller(x, y) <= polygon.hi /\ Larger(x, y) > polygon.hi
                THEN << <<lat, polygon.hi, 1>> >> ELSE <<>>
    IN  IF x < y THEN west \o east ELSE east \o west

\* the crossings of the segments k, k + 1, ... of the polyline
RECURSIVE CrossingsFrom(_, _, _)
CrossingsFrom(coords, polygon, k) ==
    IF k >= Len(coords) THEN <<>>
    ELSE Crossings(coords[k][1], coords[k][2], coords[k + 1][2], polygon)
             \o CrossingsFrom(coords, polygon, k + 1)

\* get_route_polygon_intersections: the crossing points of the polyline and
\* the boundary of the polygon, sorted by travel order
get_route_polygon_intersections(coords, polygon) == CrossingsFrom(coords, polygon, 1)

\* process_row_exact_intersections: before, during and after travel of both
\* routes between their first and last crossing of the buffer intersection
process_row_exact_intersections(row, skip_invalid, calls) ==
    LET origin_a      == row.OriginA
        destination_a == row.DestinationA
        origin_b      == row.OriginB
        destination_b == row.DestinationB
        n             == Len(calls)
        except(api_calls, exc) ==
            Except(skip_invalid, DetailedDualOverlapNull(row), api_calls, exc)
        result(api_calls, totals, overlap_a, overlap_b) ==
            Return(DetailedDualOverlapResult(HandlerBase(row), totals, overlap_a, overlap_b),
                   api_calls, 0)
    IN  IF origin_a = destination_a /\ origin_b = destination_b THEN
            result(0, TotalsFields(0, 0, 0, 0), NoOverlap, NoOverlap)
        ELSE IF origin_a = destination_a /\ origin_b # destination_b THEN
            IF n < 1 THEN NeedCall("metrics", origin_b, destination_b)
            ELSE result(1, TotalsFields(0, 0, Fetched(calls, 1)[2], Fetched(calls, 1)[3]),
                        NoOverlap, NoOverlap)
        ELSE IF origin_a # destination_a /\ origin_b = destination_b THEN
            IF n < 1 THEN NeedCall("metrics", origin_a, destination_a)
            ELSE result(1, TotalsFields(Fetched(calls, 1)[2], Fetched(calls, 1)[3], 0, 0),
                        NoOverlap, NoOverlap)
        ELSE IF n < 1 THEN NeedCall("polyline", origin_a, destination_a)
        ELSE IF n < 2 THEN NeedCall("polyline", origin_b, destination_b)
        ELSE
            LET a        == Fetched(calls, 1)
                b        == Fetched(calls, 2)
                coords_a == a[1]
                coords_b == b[1]
                buffer_a == create_buffered_route(coords_a)
                buffer_b == create_buffered_route(coords_b)
                totals   == TotalsFields(a[2], a[3], b[2], b[3])
                refined(both) ==
                    IF both.kind = "call" THEN both
                    ELSE result(2 + both.counted, totals, both.a, both.b)
            IN  IF buffer_a = Raised(ValueError) \/ buffer_b = Raised(ValueError) THEN
                    except(2, ValueError)
                ELSE IF PlotRoutesAndBuffersError(coords_a, coords_b) # "none" THEN
                    except(2, PlotRoutesAndBuffersError(coords_a, coords_b))
                ELSE IF get_buffer_intersection(buffer_a, buffer_b) = EmptyGeometry THEN
                    result(2, totals, NoOverlap, NoOverlap)
                ELSE
                    refined(RefineBoth(
                        coords_a,
                        get_route_polygon_intersections(
                            coords_a, get_buffer_intersection(buffer_a, buffer_b)),
                        coords_b,
                        get_route_polygon_intersections(
                            coords_b, get_buffer_intersection(buffer_a, buffer_b)),
                        calls))

\* process_row_exact_intersections_simple: the overlap of both routes between
\* their first and last crossing of the buffer intersection
process_row_exact_intersections_simple(row, skip_invalid, calls) ==
    LET origin_a      == row.OriginA
        destination_a == row.DestinationA
        origin_b      == row.OriginB
        destination_b == row.DestinationB
        n             == Len(calls)
        except(api_calls, exc) ==
            Except(skip_invalid, SimpleDualOverlapNull(row), api_calls, exc)
        result(api_calls, totals, overlap_a, overlap_b) ==
            Return(SimpleDualOverlapResult(ValidatedBase(row), totals, overlap_a, overlap_b),
                   api_calls, 0)
    IN  IF ~ConvertsToFloats(row) THEN except(0, "ValueError")
        ELSE IF origin_a = destination_a /\ origin_b = destination_b THEN
            result(0, TotalsFields(0, 0, 0, 0), NoOverlap, NoOverlap)
        ELSE IF origin_a = destination_a THEN
            IF n < 1 THEN NeedCall("metrics", origin_b, destination_b)
            ELSE result(1, TotalsFields(0, 0, Fetched(calls, 1)[2], Fetched(calls, 1)[3]),
                        NoOverlap, NoOverlap)
        ELSE IF origin_b = destination_b THEN
            IF n < 1 THEN NeedCall("metrics", origin_a, destination_a)
            ELSE result(1, TotalsFields(Fetched(calls, 1)[2], Fetched(calls, 1)[3], 0, 0),
                        NoOverlap, NoOverlap)
        ELSE IF n < 1 THEN NeedCall("polyline", origin_a, destination_a)
        ELSE IF n < 2 THEN NeedCall("polyline", origin_b, destination_b)
        ELSE
            LET a        == Fetched(calls, 1)
                b        == Fetched(calls, 2)
                coords_a == a[1]
                coords_b == b[1]
                buffer_a == create_buffered_route(coords_a)
                whole    == DuringBeforeAfter(<<a[2], a[3]>>, <<0, 0>>, <<0, 0>>)
                totals   == TotalsFields(a[2], a[3], b[2], b[3])
                refined(both) ==
                    IF both.kind = "call" THEN both
                    ELSE result(2 + both.counted, totals, both.a, both.b)
            IN  IF origin_a = origin_b /\ destination_a = destination_b THEN
                    IF buffer_a = Raised(ValueError) THEN except(2, ValueError)
                    ELSE IF PlotRoutesAndBuffersError(coords_a, coords_b) # "none" THEN
                        except(2, PlotRoutesAndBuffersError(coords_a, coords_b))
                    ELSE result(2, TotalsFields(a[2], a[3], a[2], a[3]), whole, whole)
                ELSE IF buffer_a = Raised(ValueError)
                        \/ create_buffered_route(coords_b) = Raised(ValueError) THEN
                    except(2, ValueError)
                ELSE IF PlotRoutesAndBuffersError(coords_a, coords_b) # "none" THEN
                    except(2, PlotRoutesAndBuffersError(coords_a, coords_b))
                ELSE IF get_buffer_intersection(buffer_a, create_buffered_route(coords_b))
                            = EmptyGeometry THEN
                    result(2, totals, NoOverlap, NoOverlap)
                ELSE
                    refined(RefineBoth(
                        coords_a,
                        get_route_polygon_intersections(
                            coords_a, get_buffer_intersection(
                                          buffer_a, create_buffered_route(coords_b))),
                        coords_b,
                        get_route_polygon_intersections(
                            coords_b, get_buffer_intersection(
                                          buffer_a, create_buffered_route(coords_b))),
                        calls))

(***************************************************************************)
(* The four specifications: each one keeps the variables of the others at  *)
(* rest                                                                    *)
(***************************************************************************)

NoOutcome == [kind |-> "none"]

NodesIdle ==
    /\ n_pc = "idle"
    /\ coordinates_a = <<>>
    /\ coordinates_b = <<>>
    /\ common_nodes = <<None, None>>
    /\ segments_a = <<>>
    /\ segments_b = <<>>

RowIdle ==
    /\ r_pc = "idle"
    /\ r_fn = "none"
    /\ r_row = MappedRow("R1", HomeA, WorkA, HomeB, WorkB)
    /\ r_skip_invalid = TRUE
    /\ r_calls = <<>>
    /\ r_outcome = NoOutcome

NotWritten == <<"not written">>

BatchIdle ==
    /\ b_pc = "idle"
    /\ b_args = [entry |-> "none"]
    /\ b_csv = <<>>
    /\ b_estimate = Null
    /\ b_data = <<>>
    /\ b_pre_api_error_count = 0
    /\ b_calls = <<>>
    /\ b_outcome = <<>>
    /\ b_after_error = [raised |-> 0, rows |-> 0, calls |-> 0]
    /\ b_return = None
    /\ b_exception = "none"
    /\ b_output = NotWritten
    /\ b_log = NotWritten
    /\ api_response_cache = {}
    /\ b_cache_file = NotWritten

CalcIdle ==
    /\ f_pc = "idle"
    /\ f_fn = "none"
    /\ f_args = <<>>
    /\ f_result = NoOutcome

(***************************************************************************)
(* SpecNodes                                                               *)
(***************************************************************************)

NodesInit ==
    /\ n_pc = "input"
    /\ \/ coordinates_a \in Routes /\ coordinates_b \in Routes
       \/ coordinates_a = ExampleRouteA /\ coordinates_b = ExampleRouteB
    /\ common_nodes = <<None, None>>
    /\ segments_a = <<>>
    /\ segments_b = <<>>
    /\ RowIdle
    /\ BatchIdle
    /\ CalcIdle

\* first_common_node, last_common_node = find_common_nodes(coordinates_a, coordinates_b)
FindCommonNodes ==
    /\ n_pc = "input"
    /\ common_nodes' = find_common_nodes(coordinates_a, coordinates_b)
    /\ n_pc' = "found"
    /\ UNCHANGED <<coordinates_a, coordinates_b, segments_a, segments_b>>
    /\ UNCHANGED <<rowVars, batchVars, calcVars>>

\* the callers split both routes at the nodes found by scanning route A,
\* and only when both nodes are truthy
SplitSegments ==
    /\ n_pc = "found"
    /\ common_nodes[1] # None /\ common_nodes[2] # None
    /\ segments_a' = split_segments(coordinates_a, common_nodes[1], common_nodes[2])
    /\ segments_b' = split_segments(coordinates_b, common_nodes[1], common_nodes[2])
    /\ n_pc' = "split"
    /\ UNCHANGED <<coordinates_a, coordinates_b, common_nodes>>
    /\ UNCHANGED <<rowVars, batchVars, calcVars>>

NodesNext == FindCommonNodes \/ SplitSegments

SpecNodes == NodesInit /\ [][NodesNext]_vars

(***************************************************************************)
(* SpecRow: one row processed by one row function                          *)
(***************************************************************************)

RowFunctions ==
    {"process_row_overlap", "process_row_only_overlap",
     "process_row_route_buffers", "process_row_closest_nodes",
     "process_row_only_overlap_rec"}

\* what the row function fn does next on the row, given the answers in calls
RowFunction(fn, row, skip_invalid, calls) ==
    CASE fn = "process_row_overlap" -> process_row_overlap(row, skip_invalid, calls)
      [] fn = "process_row_only_overlap" -> process_row_only_overlap(row, skip_invalid, calls)
      [] fn = "process_row_route_buffers" -> process_row_route_buffers(row, skip_invalid, calls)
      [] fn = "process_row_closest_nodes" -> process_row_closest_nodes(row, skip_invalid, calls)
      [] fn = "process_row_overlap_rec_multiproc" ->
             process_row_overlap_rec_multiproc(row, skip_invalid, calls)
      [] fn = "process_row_only_overlap_rec" ->
             process_row_only_overlap_rec(row, skip_invalid, calls)
      [] fn = "process_row_closest_nodes_simple" ->
             process_row_closest_nodes_simple(row, skip_invalid, calls)
      [] fn = "process_row_exact_intersections" ->
             process_row_exact_intersections(row, skip_invalid, calls)
      [] fn = "process_row_exact_intersections_simple" ->
             process_row_exact_intersections_simple(row, skip_invalid, calls)

\* one get_route_data(origin, destination) and the answer it received
OracleCall(origin, destination, response) ==
    [origin |-> origin, destination |-> destination, response |-> response]

RowInit ==
    /\ r_pc = "running"
    /\ r_fn \in RowFunctions
    /\ r_row \in InputRows
    /\ r_skip_invalid \in BOOLEAN
    /\ r_calls = <<>>
    /\ r_outcome = NoOutcome
    /\ NodesIdle
    /\ BatchIdle
    /\ CalcIdle

\* the row function runs up to its next get_route_data, which the oracle
\* answers with one of Answers(use), or up to its return or raise
RowStepFrom(next, Answers(_)) ==
    /\ r_pc = "running"
    /\ IF next.kind = "call"
       THEN /\ \E response \in Answers(next.use) :
                   r_calls' = Append(r_calls,
                                     OracleCall(next.origin, next.destination, response))
            /\ UNCHANGED <<r_pc, r_outcome>>
       ELSE /\ r_pc' = "done"
            /\ r_outcome' = next
            /\ UNCHANGED r_calls
    /\ UNCHANGED <<r_fn, r_row, r_skip_invalid>>
    /\ UNCHANGED <<nodeVars, batchVars, calcVars>>

RowStep(next) == RowStepFrom(next, Responses)

ProcessRowOverlap ==
    /\ r_fn = "process_row_overlap"
    /\ RowStep(process_row_overlap(r_row, r_skip_invalid, r_calls))

ProcessRowOnlyOverlap ==
    /\ r_fn = "process_row_only_overlap"
    /\ RowStep(process_row_only_overlap(r_row, r_skip_invalid, r_calls))

ProcessRowRouteBuffers ==
    /\ r_fn = "process_row_route_buffers"
    /\ RowStep(process_row_route_buffers(r_row, r_skip_invalid, r_calls))

ProcessRowClosestNodes ==
    /\ r_fn = "process_row_closest_nodes"
    /\ RowStep(process_row_closest_nodes(r_row, r_skip_invalid, r_calls))

ProcessRowOnlyOverlapRec ==
    /\ r_fn = "process_row_only_overlap_rec"
    /\ RowStep(process_row_only_overlap_rec(r_row, r_skip_invalid, r_calls))

RowNext ==
    \/ ProcessRowOverlap
    \/ ProcessRowOnlyOverlap
    \/ ProcessRowRouteBuffers
    \/ ProcessRowClosestNodes
    \/ ProcessRowOnlyOverlapRec

SpecRow == RowInit /\ [][RowNext]_vars

(***************************************************************************)
(* SpecRec: one row processed by the rectangle pipeline, on routes with a  *)
(* before part and an after part                                           *)
(***************************************************************************)

\* the polylines the oracle answers with in the rectangle specification
RecRoutes ==
    { << <<0, 1>>, <<0, 2>> >>,
      << <<0, 0>>, <<0, 1>>, <<0, 2>> >>,
      << <<1, 1>>, <<0, 1>>, <<0, 2>> >>,
      << <<0, 0>>, <<0, 2>> >>,
      << <<0, 0>>, <<0, 2>>, <<0, 4>> >>,
      << <<0, 1>>, <<0, 2>>, <<0, 3>> >>,
      << <<0, 0>>, <<0, 0>>, <<0, 1>> >>,
      << <<0, 1>>, <<0, 3>> >> }

RecResponses(use) ==
    IF use = "polyline"
    THEN {OkResponse(points, leg) : points \in RecRoutes, leg \in LegValues}
             \cup {FailedResponse}
    ELSE SegmentResponses

\* two different commutes, and two identical ones
RecRows ==
    { MappedRow("R1", HomeA, WorkA, HomeB, WorkB),
      MappedRow("R1", HomeA, WorkA, HomeA, WorkA) }

RecInit ==
    /\ r_pc = "running"
    /\ r_fn = "process_row_overlap_rec_multiproc"
    /\ r_row \in RecRows
    /\ r_skip_invalid \in BOOLEAN
    /\ r_calls = <<>>
    /\ r_outcome = NoOutcome
    /\ NodesIdle
    /\ BatchIdle
    /\ CalcIdle

ProcessRowOverlapRecMultiproc ==
    /\ r_fn = "process_row_overlap_rec_multiproc"
    /\ RowStepFrom(process_row_overlap_rec_multiproc(r_row, r_skip_invalid, r_calls),
                   RecResponses)

RecNext == ProcessRowOverlapRecMultiproc

SpecRec == RecInit /\ [][RecNext]_vars

(***************************************************************************)
(* Input validation, cost estimate and dispatch                            *)
(***************************************************************************)

\* the most rows an input file has in the model
MaxRows == 2

\* is_valid_coordinate: two fields, both numbers, latitude and longitude in range
is_valid_coordinate(coord) ==
    /\ Len(coord) = 2
    /\ IsNumber(coord[1]) /\ IsNumber(coord[2])
    /\ -90 <= float(coord[1]) /\ float(coord[1]) <= 90
    /\ -180 <= float(coord[2]) /\ float(coord[2]) <= 180

\* invalids = [c for c in coords if not is_valid_coordinate(c)]
HasInvalids(endpoints) == \E k \in 1..4 : ~is_valid_coordinate(endpoints[k])

\* row["ID"] = f"R{idx}" when the file has no ID column
RowId(idx) == "R" \o ToString(idx)

\* the endpoint quadruples of the input files of the batch specification
BatchEndpoints ==
    { <<HomeA, WorkA, HomeB, WorkB>>,
      <<HomeA, WorkA, HomeA, WorkA>>,
      <<NotANumber, WorkA, HomeB, WorkB>> }

InputFiles == SeqsUpTo(BatchEndpoints, MaxRows)

\* read_csv_file: every row is mapped and appended; an invalid row is counted,
\* and raises ValueError when skip_invalid is false
read_csv_file(csv_rows, skip_invalid) ==
    IF ~skip_invalid /\ \E idx \in 1..Len(csv_rows) : HasInvalids(csv_rows[idx])
    THEN Raised(ValueError)
    ELSE [data |-> [idx \in 1..Len(csv_rows) |->
                       MappedRow(RowId(idx), csv_rows[idx][1], csv_rows[idx][2],
                                 csv_rows[idx][3], csv_rows[idx][4])],
          error_count |-> Cardinality({idx \in 1..Len(csv_rows) : HasInvalids(csv_rows[idx])})]

\* the values of approximation and of commuting_info the dispatch has an arm for
Approximations == {"yes", "no", "yes with buffer", "closer to precision", "exact"}

CommutingInfos == {"yes", "no"}

AcceptedPairs == Approximations \X CommutingInfos

\* the (approximation, commuting_info) pairs of the batch specification
Strategies ==
    { <<"no", "yes">>, <<"no", "no">>, <<"yes", "yes">>, <<"yes", "no">>,
      <<"yes with buffer", "no">>, <<"closer to precision", "yes">> }

SelectedIgnoringCommutingInfo(approximation, commuting_info) ==
    CASE approximation = "no" -> "process_row_overlap"
      [] approximation = "yes" -> "process_row_overlap_rec_multiproc"
      [] approximation = "yes with buffer" -> "process_row_route_buffers"
      [] approximation = "closer to precision" -> "process_row_closest_nodes"
      [] approximation = "exact" -> "process_row_exact_intersections"

\* the if/elif chain of Overlap_Function: the row function of the batch entry
\* point that the pair of flags selects
SelectedRowFunction(approximation, commuting_info) ==
    CASE approximation = "yes" /\ commuting_info = "yes" ->
             "process_row_overlap_rec_multiproc"
      [] approximation = "yes" /\ commuting_info = "no" -> "process_row_only_overlap_rec"
      [] approximation = "no" /\ commuting_info = "yes" -> "process_row_overlap"
      [] approximation = "no" /\ commuting_info = "no" -> "process_row_only_overlap"
      [] approximation = "yes with buffer" -> "process_row_route_buffers"
      [] approximation = "closer to precision" /\ commuting_info = "yes" ->
             "process_row_closest_nodes"
      [] approximation = "closer to precision" /\ commuting_info = "no" ->
             "process_row_closest_nodes_simple"
      [] approximation = "exact" /\ commuting_info = "yes" ->
             "process_row_exact_intersections"
      [] approximation = "exact" /\ commuting_info = "no" ->
             "process_row_exact_intersections_simple"

\* the requests request_cost_estimation adds for one row
RowEstimate(row, approximation, commuting_info) ==
    LET same_a      == row.OriginA = row.OriginB
        same_b      == row.DestinationA = row.DestinationB
        same_a_dest == row.OriginA = row.DestinationA
        same_b_dest == row.OriginB = row.DestinationB
    IN  IF approximation = "no" THEN
            IF same_a /\ same_b THEN 1 ELSE IF commuting_info = "yes" THEN 7 ELSE 3
        ELSE IF approximation = "yes" THEN
            IF same_a /\ same_b THEN 1 ELSE IF commuting_info = "yes" THEN 7 ELSE 4
        ELSE IF approximation = "yes with buffer" THEN
            IF same_a_dest /\ same_b_dest THEN 0
            ELSE IF same_a_dest \/ same_b_dest \/ (same_a /\ same_b) THEN 1
            ELSE 2
        ELSE
            IF same_a_dest /\ same_b_dest THEN 0
            ELSE IF same_a_dest \/ same_b_dest \/ (same_a /\ same_b) THEN 1
            ELSE IF commuting_info = "yes" THEN 8 ELSE 4

RECURSIVE SumOver(_, _)
SumOver(f, k) == IF k = 0 THEN 0 ELSE f[k] + SumOver(f, k - 1)

\* request_cost_estimation: the number of requests, or the ValueError of read_csv_file
request_cost_estimation(csv_rows, approximation, commuting_info, skip_invalid) ==
    LET read == read_csv_file(csv_rows, skip_invalid)
    IN  IF read = Raised(ValueError) THEN read
        ELSE [num_requests |->
                 SumOver([k \in 1..Len(read.data) |->
                             RowEstimate(read.data[k], approximation, commuting_info)],
                         Len(read.data))]

(***************************************************************************)
(* SpecBatch: Overlap_Function and the batch entry points                  *)
(***************************************************************************)

\* the answers of the oracle in the batch specification
BatchResponses(use) ==
    IF use = "polyline"
    THEN {FailedResponse,
          OkResponse(<< <<0, 0>> >>, [meters |-> 1000, seconds |-> 120]),
          OkResponse(<< <<0, 0>>, <<0, 1>> >>, [meters |-> 1000, seconds |-> 120])}
    ELSE {OkResponse(<< <<0, 0>>, <<0, 1>> >>, [meters |-> 2000, seconds |-> 60])}

\* api_response_cache[(origin, destination)] = directions_data
CachePut(cache, call) ==
    {e \in cache : e.key # <<call.origin, call.destination>>}
        \cup {[key |-> <<call.origin, call.destination>>, response |-> call.response]}

\* the cache after the calls k.. of a row whose worker saves the answers
RECURSIVE CacheAfter(_, _, _)
CacheAfter(cache, calls, k) ==
    IF k > Len(calls) THEN cache
    ELSE CacheAfter(CachePut(cache, calls[k]), calls, k + 1)

\* the call logs with which the row function can run from calls to its end
RECURSIVE Completions(_, _, _, _)
Completions(fn, row, skip_invalid, calls) ==
    LET next == RowFunction(fn, row, skip_invalid, calls)
    IN  IF next.kind = "call"
        THEN UNION { Completions(fn, row, skip_invalid,
                                 Append(calls, OracleCall(next.origin, next.destination,
                                                          response))) :
                     response \in BatchResponses(next.use) }
        ELSE {calls}

\* how the batch is entered: through Overlap_Function, or by a direct call of
\* the batch entry point of the strategy
BatchArgs ==
    { [entry |-> entry, approximation |-> s[1], commuting_info |-> s[2],
       skip_invalid |-> skip_invalid, save_api_info |-> save_api_info,
       auto_confirm |-> confirm[1], user_input |-> confirm[2]] :
      entry \in {"Overlap_Function", "batch"}, s \in Strategies, skip_invalid \in BOOLEAN,
      save_api_info \in BOOLEAN,
      confirm \in {<<TRUE, "">>, <<FALSE, "yes">>, <<FALSE, "no">>} }

BatchInit ==
    /\ b_args \in {a \in BatchArgs : a.entry = "Overlap_Function" \/ a.auto_confirm}
    /\ b_pc = IF b_args.entry = "Overlap_Function" THEN "estimate" ELSE "read"
    /\ b_csv \in InputFiles
    /\ b_estimate = Null
    /\ b_data = <<>>
    /\ b_pre_api_error_count = 0
    /\ b_calls = <<>>
    /\ b_outcome = <<>>
    /\ b_after_error = [raised |-> 0, rows |-> 0, calls |-> 0]
    /\ b_return = None
    /\ b_exception = "none"
    /\ b_output = NotWritten
    /\ b_log = NotWritten
    /\ api_response_cache = {}
    /\ b_cache_file = NotWritten
    /\ NodesIdle
    /\ RowIdle
    /\ CalcIdle

b_fn == SelectedRowFunction(b_args.approximation, b_args.commuting_info)

\* Overlap_Function: try request_cost_estimation; except Exception: print, return
EstimateCost ==
    /\ b_pc = "estimate"
    /\ LET estimate == request_cost_estimation(b_csv, b_args.approximation,
                                               b_args.commuting_info, b_args.skip_invalid)
       IN  IF estimate = Raised(ValueError)
           THEN b_pc' = "done" /\ UNCHANGED b_estimate
           ELSE b_pc' = "confirm" /\ b_estimate' = estimate.num_requests
    /\ UNCHANGED <<b_args, b_csv, b_data, b_pre_api_error_count, b_calls, b_outcome,
                   b_after_error, b_return, b_exception, b_output, b_log>>
    /\ UNCHANGED <<api_response_cache, b_cache_file>>
    /\ UNCHANGED <<nodeVars, rowVars, calcVars>>

\* input(...).strip().lower() for the lines the model has the user type
StripLowerTable ==
    ("" :> "") @@ ("yes" :> "yes") @@ (" Yes " :> "yes") @@ ("no" :> "no")

strip_lower(line) == StripLowerTable[line]

ConfirmWithoutAsking ==
    /\ b_pc = "confirm"
    /\ b_pc' = "read"
    /\ UNCHANGED <<b_args, b_csv, b_estimate, b_data, b_pre_api_error_count, b_calls,
                   b_outcome, b_after_error, b_return, b_exception, b_output, b_log>>
    /\ UNCHANGED <<api_response_cache, b_cache_file>>
    /\ UNCHANGED <<nodeVars, rowVars, calcVars>>

\* Overlap_Function: unless auto_confirm, anything but "yes" cancels
Confirm ==
    /\ b_pc = "confirm"
    /\ b_pc' = IF b_args.auto_confirm \/ strip_lower(b_args.user_input) = "yes"
               THEN "read" ELSE "done"
    /\ UNCHANGED <<b_args, b_csv, b_estimate, b_data, b_pre_api_error_count, b_calls,
                   b_outcome, b_after_error, b_return, b_exception, b_output, b_log>>
    /\ UNCHANGED <<api_response_cache, b_cache_file>>
    /\ UNCHANGED <<nodeVars, rowVars, calcVars>>

\* the batch entry point reads the input; the ValueError of read_csv_file is
\* caught nowhere on the way to the caller
ReadCsvFile ==
    /\ b_pc = "read"
    /\ LET read == read_csv_file(b_csv, b_args.skip_invalid)
       IN  IF read = Raised(ValueError)
           THEN /\ b_pc' = "done"
                /\ b_exception' = ValueError
                /\ UNCHANGED <<b_data, b_pre_api_error_count, b_calls, b_outcome>>
           ELSE /\ b_pc' = "map"
                /\ b_data' = read.data
                /\ b_pre_api_error_count' = read.error_count
                /\ b_calls' = [k \in 1..Len(read.data) |-> <<>>]
                /\ b_outcome' = [k \in 1..Len(read.data) |-> NoOutcome]
                /\ UNCHANGED b_exception
    /\ UNCHANGED <<b_args, b_csv, b_estimate, b_after_error, b_return, b_output, b_log>>
    /\ UNCHANGED <<api_response_cache, b_cache_file>>
    /\ UNCHANGED <<nodeVars, rowVars, calcVars>>

\* pool.map: a worker thread runs the row function on row i, from its first
\* statement to its return or raise.  Every task of the map is run, whatever
\* the other tasks did: the map is ready once all its tasks are done.
RunRow(i) ==
    /\ b_pc = "map"
    /\ b_outcome[i] = NoOutcome
    /\ \E calls \in Completions(b_fn, b_data[i], b_args.skip_invalid, <<>>) :
          LET outcome == RowFunction(b_fn, b_data[i], b_args.skip_invalid, calls)
          IN  /\ b_calls' = [b_calls EXCEPT ![i] = calls]
              /\ b_outcome' = [b_outcome EXCEPT ![i] = outcome]
              /\ api_response_cache' =
                     IF b_args.save_api_info
                     THEN CacheAfter(api_response_cache, calls, 1)
                     ELSE api_response_cache
              /\ b_after_error' =
                     IF b_after_error.raised # 0
                     THEN [b_after_error EXCEPT !.rows = @ + 1, !.calls = @ + Len(calls)]
                     ELSE IF outcome.kind = "raise"
                     THEN [b_after_error EXCEPT !.raised = i]
                     ELSE b_after_error
    /\ UNCHANGED <<b_pc, b_args, b_csv, b_estimate, b_data, b_pre_api_error_count,
                   b_return, b_exception, b_output, b_log>>
    /\ UNCHANGED b_cache_file
    /\ UNCHANGED <<nodeVars, rowVars, calcVars>>

AllRowsRun == \A i \in 1..Len(b_data) : b_outcome[i] # NoOutcome

\* pool.map re-raises the first exception a task raised; nothing catches it in
\* the batch entry point nor in Overlap_Function
PoolMapRaises ==
    /\ b_pc = "map"
    /\ AllRowsRun
    /\ b_after_error.raised # 0
    /\ b_exception' = b_outcome[b_after_error.raised].exc
    /\ b_pc' = "done"
    /\ UNCHANGED <<b_args, b_csv, b_estimate, b_data, b_pre_api_error_count, b_calls,
                   b_outcome, b_after_error, b_return, b_output, b_log>>
    /\ UNCHANGED <<api_response_cache, b_cache_file>>
    /\ UNCHANGED <<nodeVars, rowVars, calcVars>>

\* for result in results: if result is None: continue
Collected(outcomes) == SelectSeq(outcomes, LAMBDA o : o # ReturnedNone)

\* the entry points that write the output file only when there is a record
WritesOnlyRecords(fn) ==
    fn \in {"process_row_closest_nodes", "process_row_overlap_rec_multiproc",
            "process_row_closest_nodes_simple", "process_row_exact_intersections",
            "process_row_exact_intersections_simple"}

\* the first element of the tuple the entry point returns: the collected
\* records; overlap_rec returns the list pool.map gave it
ReturnedRecords(fn, outcomes, processed_rows) ==
    IF fn = "process_row_overlap_rec_multiproc" THEN outcomes ELSE processed_rows

\* the single collector loop, the write of the output file and the return
CollectAndWrite ==
    /\ b_pc = "map"
    /\ AllRowsRun
    /\ b_after_error.raised = 0
    /\ LET triples == Collected(b_outcome)
           results == [k \in 1..Len(triples) |-> triples[k].result]
           api_call_count == SumOver([k \in 1..Len(triples) |-> triples[k].api_calls],
                                     Len(triples))
           post_api_error_count == SumOver([k \in 1..Len(triples) |-> triples[k].api_errors],
                                           Len(triples))
       IN  /\ b_output' = IF WritesOnlyRecords(b_fn) /\ results = <<>>
                          THEN NotWritten ELSE results
           /\ b_return' = <<ReturnedRecords(b_fn, b_outcome, results),
                            b_pre_api_error_count, api_call_count, post_api_error_count>>
    /\ b_pc' = IF b_args.entry = "Overlap_Function" THEN "log" ELSE "done"
    /\ UNCHANGED <<b_args, b_csv, b_estimate, b_data, b_pre_api_error_count, b_calls,
                   b_outcome, b_after_error, b_exception, b_log>>
    /\ UNCHANGED <<api_response_cache, b_cache_file>>
    /\ UNCHANGED <<nodeVars, rowVars, calcVars>>

\* Overlap_Function: the counts go to the log, the cache is pickled when
\* save_api_info is True, and the function itself returns None
WriteLog ==
    /\ b_pc = "log"
    /\ b_log' = <<b_return[2], b_return[4], b_return[3]>>
    /\ b_return' = None
    /\ b_cache_file' = IF b_args.save_api_info THEN api_response_cache ELSE b_cache_file
    /\ b_pc' = "done"
    /\ UNCHANGED <<b_args, b_csv, b_estimate, b_data, b_pre_api_error_count, b_calls,
                   b_outcome, b_after_error, b_exception, b_output>>
    /\ UNCHANGED api_response_cache
    /\ UNCHANGED <<nodeVars, rowVars, calcVars>>

BatchNext ==
    \/ EstimateCost
    \/ Confirm
    \/ ReadCsvFile
    \/ \E i \in 1..MaxRows : i <= Len(b_data) /\ RunRow(i)
    \/ PoolMapRaises
    \/ CollectAndWrite
    \/ WriteLog

SpecBatch == BatchInit /\ [][BatchNext]_vars

(***************************************************************************)
(* SpecDispatch: Overlap_Function on every accepted pair of flags          *)
(***************************************************************************)

\* Overlap_Function on each accepted pair: confirmed without a prompt,
\* confirmed by the answer " Yes ", or refused by the answer "no" (with and
\* without save_api_info)
DispatchArgs ==
    { [entry |-> "Overlap_Function", approximation |-> s[1], commuting_info |-> s[2],
       skip_invalid |-> skip_invalid, save_api_info |-> confirm[3],
       auto_confirm |-> confirm[1], user_input |-> confirm[2]] :
      s \in AcceptedPairs, skip_invalid \in BOOLEAN,
      confirm \in {<<TRUE, "", FALSE>>, <<FALSE, " Yes ", FALSE>>,
                   <<FALSE, "no", FALSE>>, <<FALSE, "no", TRUE>>} }

DispatchInit ==
    /\ b_args \in DispatchArgs
    /\ b_pc = "estimate"
    /\ b_csv \in InputFiles
    /\ b_estimate = Null
    /\ b_data = <<>>
    /\ b_pre_api_error_count = 0
    /\ b_calls = <<>>
    /\ b_outcome = <<>>
    /\ b_after_error = [raised |-> 0, rows |-> 0, calls |-> 0]
    /\ b_return = None
    /\ b_exception = "none"
    /\ b_output = NotWritten
    /\ b_log = NotWritten
    /\ api_response_cache = {}
    /\ b_cache_file = NotWritten
    /\ NodesIdle
    /\ RowIdle
    /\ CalcIdle

SpecDispatch == DispatchInit /\ [][BatchNext]_vars

(***************************************************************************)
(* SpecCalc: one geometry or arithmetic function applied to one tuple of   *)
(* arguments                                                               *)
(***************************************************************************)

\* the easternmost meridian of the lattice
MaxLon == 2

\* the lattice points of the segments: two parallels, the meridians 0..MaxLon
CalcCoords == {<<lat, lon>> : lat \in 0..1, lon \in 0..MaxLon}

\* a segment of positive length along a parallel or a meridian
AlongAxis(start, end) == start # end /\ (start[1] = end[1] \/ start[2] = end[2])

\* rectangle widths in metres: no width, and one degree
Widths == {0, MetresPerDegree}

\* the rectangles around the segments of the lattice
SegmentRectangles ==
    {Polygon(calculate_rectangle_coordinates(start, end, width).list) :
        <<start, end, width>> \in
            {t \in CalcCoords \X CalcCoords \X Widths : AlongAxis(t[1], t[2])}}

\* the before and after parts of a route that the rectangle pipeline labels
CalcParts ==
    { <<>>,
      << <<0, 0>>, <<0, 1>> >>,
      << <<0, 0>>, <<0, 2>> >>,
      << <<0, 1>>, <<0, 2>> >>,
      << <<0, 0>>, <<0, 1>>, <<0, 2>> >>,
      << <<0, 0>>, <<1, 0>> >> }

\* the labelled rectangles of one route, as the row functions build them
RouteRectangles(before, after, width) ==
    LET segment_distances == calculate_segment_distances(before, after)
    IN  create_segment_rectangles(
            segment_distances.before_segments \o segment_distances.after_segments, width)

LabelledRectangles ==
    {RouteRectangles(before, after, MetresPerDegree).list :
        before \in CalcParts, after \in CalcParts}

\* thresholds, in hundredths of a percent
Thresholds == {Percent(0), Percent(25), Percent(50), Percent(100)}

\* the largest distance or duration the oracle reports
MaxValue == 3

\* distances and durations the oracle may report
CalcValues == 0..MaxValue

\* the northernmost parallel of the meridional routes: 60 degrees
MaxLat == 2

\* the buffers of the routes along the meridian lon = 0
Corridors == {Corridor(south, north) : <<south, north>> \in
                 {p \in (0..MaxLat) \X (0..MaxLat) : p[1] <= p[2]}}

CalcFunctions ==
    {"calculate_overlap_ratio", "filter_combinations_by_overlap", "compute_percentages",
     "buffer_intersection_ratios", "find_overlap_boundary_nodes"}

CalcArguments(fn) ==
    CASE fn = "calculate_overlap_ratio" -> SegmentRectangles \X SegmentRectangles
      [] fn = "filter_combinations_by_overlap" ->
             LabelledRectangles \X LabelledRectangles \X Thresholds
      [] fn = "compute_percentages" -> CalcValues \X CalcValues
      [] fn = "buffer_intersection_ratios" -> Corridors \X Corridors
      [] fn = "find_overlap_boundary_nodes" ->
             LabelledRectangles \X LabelledRectangles \X Thresholds

CalcInit ==
    /\ f_pc = "call"
    /\ f_fn \in CalcFunctions
    /\ f_args \in CalcArguments(f_fn)
    /\ f_result = NoOutcome
    /\ NodesIdle
    /\ RowIdle
    /\ BatchIdle

CalcReturn(fn, value) ==
    /\ f_pc = "call"
    /\ f_fn = fn
    /\ f_result' = [kind |-> "returned", value |-> value]
    /\ f_pc' = "returned"
    /\ UNCHANGED <<f_fn, f_args>>
    /\ UNCHANGED <<nodeVars, rowVars, batchVars>>

CalculateOverlapRatio ==
    CalcReturn("calculate_overlap_ratio", calculate_overlap_ratio(f_args[1], f_args[2]))

FilterCombinationsByOverlap ==
    CalcReturn("filter_combinations_by_overlap",
               filter_combinations_by_overlap(f_args[1], f_args[2], f_args[3]))

ComputePercentages ==
    CalcReturn("compute_percentages", compute_percentages(f_args[1], f_args[2]))

\* the last step of process_row_route_buffers, on two buffers that were built
BufferIntersectionRatios ==
    CalcReturn("buffer_intersection_ratios", IntersectionRatios(f_args[1], f_args[2]))

\* find_overlap_boundary_nodes on the combinations that
\* filter_combinations_by_overlap retained of the two lists of rectangles
FindOverlapBoundaryNodes ==
    CalcReturn("find_overlap_boundary_nodes",
               find_overlap_boundary_nodes(
                   filter_combinations_by_overlap(f_args[1], f_args[2], f_args[3]),
                   f_args[1], f_args[2]))

CalcNext ==
    \/ CalculateOverlapRatio
    \/ FilterCombinationsByOverlap
    \/ ComputePercentages
    \/ BufferIntersectionRatios
    \/ FindOverlapBoundaryNodes

SpecCalc == CalcInit /\ [][CalcNext]_vars

(***************************************************************************)
(* Claims about the matcher and splitter (SpecNodes)                       *)
(***************************************************************************)

\* the positions of route a whose coordinate occurs somewhere in route b
CommonIndices(a, b) == {i \in 1..Len(a) : a[i] \in {b[k] : k \in 1..Len(b)}}

\* C1: find_common_nodes(A, B) returns the element of A at the smallest index
\* whose coordinate also occurs in B and the element of A at the largest such
\* index; (None, None) when no coordinate is shared; (route[0], route[-1]) for
\* two identical non-empty routes; ((0,1), (0,2)) on the documented example.
C1_FindCommonNodes ==
    n_pc # "input" =>
        LET idx == CommonIndices(coordinates_a, coordinates_b)
        IN  /\ idx = {} => common_nodes = <<None, None>>
            /\ idx # {} => common_nodes = << coordinates_a[SetMin(idx)],
                                            coordinates_a[SetMax(idx)] >>
            /\ (coordinates_a = coordinates_b /\ coordinates_a # <<>>) =>
                   common_nodes = << coordinates_a[1], coordinates_a[Len(coordinates_a)] >>
            /\ (coordinates_a = ExampleRouteA /\ coordinates_b = ExampleRouteB) =>
                   common_nodes = << <<0, 1>>, <<0, 2>> >>

\* a pair of routes whose first and last common nodes differ, the first one
\* not being the head of route A
C1_Witness ==
    /\ n_pc = "found"
    /\ common_nodes[1] # None
    /\ common_nodes[1] # common_nodes[2]
    /\ coordinates_a[1] # common_nodes[1]
    /\ coordinates_a # coordinates_b

\* C2: split_segments(route, first, last) returns route[0..firstIndex],
\* route[firstIndex..lastIndex] and route[lastIndex..end], all inclusive, where
\* firstIndex and lastIndex are the positions at which first and last were found
\* in the route, so that before ends and overlap starts with first, overlap ends
\* and after starts with last; also when a coordinate occurs more than once.
C2_SplitAtFoundPositions ==
    n_pc = "split" =>
        LET idx        == CommonIndices(coordinates_a, coordinates_b)
            firstIndex == SetMin(idx)
            lastIndex  == SetMax(idx)
            before     == segments_a[1]
            overlap    == segments_a[2]
            after      == segments_a[3]
        IN  /\ before  = SubSeq(coordinates_a, 1, firstIndex)
            /\ overlap = SubSeq(coordinates_a, firstIndex, lastIndex)
            /\ after   = SubSeq(coordinates_a, lastIndex, Len(coordinates_a))
            /\ before[Len(before)] = common_nodes[1] /\ overlap[1] = common_nodes[1]
            /\ overlap[Len(overlap)] = common_nodes[2] /\ after[1] = common_nodes[2]

\* the index ranges split_segments cuts route A into
SplitRanges ==
    LET index_first == ListIndex(coordinates_a, common_nodes[1])
        index_last  == ListIndex(coordinates_a, common_nodes[2])
    IN  << 1..index_first, index_first..index_last, index_last..Len(coordinates_a) >>

PartsHolding(k) == Cardinality({p \in 1..3 : k \in SplitRanges[p]})

\* C3 as stated: every index of the route lies in exactly one part, except the
\* two boundary positions, each of which lies in exactly two parts, also when
\* first = last.
C3_CoverageOriginal ==
    n_pc = "split" =>
        LET index_first == ListIndex(coordinates_a, common_nodes[1])
            index_last  == ListIndex(coordinates_a, common_nodes[2])
        IN  \A k \in 1..Len(coordinates_a) :
                PartsHolding(k) = IF k \in {index_first, index_last} THEN 2 ELSE 1

\* C3 as amended: for (first, last) from find_common_nodes on the route, the parts
\* are the index ranges [0..i], [i..j], [j..end] with i <= j; they cover every
\* index, every index other than i and j lies in exactly one part, adjacent parts
\* share their boundary point, and a boundary position lies in exactly two
\* adjacent parts when i < j and in all three parts when i = j.
C3_Coverage ==
    n_pc = "split" =>
        LET index_first == ListIndex(coordinates_a, common_nodes[1])
            index_last  == ListIndex(coordinates_a, common_nodes[2])
            before      == segments_a[1]
            overlap     == segments_a[2]
            after       == segments_a[3]
        IN  /\ Len(segments_a) = 3
            /\ 1 <= index_first /\ index_first <= index_last
            /\ index_last <= Len(coordinates_a)
            /\ \A p \in 1..3 : Len(segments_a[p]) = Cardinality(SplitRanges[p])
            /\ before # <<>> /\ overlap # <<>> /\ after # <<>>
            /\ before \o Tail(overlap) \o Tail(after) = coordinates_a
            /\ before[Len(before)] = overlap[1]
            /\ overlap[Len(overlap)] = after[1]
            /\ \A k \in 1..Len(coordinates_a) :
                   PartsHolding(k) = IF k \notin {index_first, index_last} THEN 1
                                     ELSE IF index_first < index_last THEN 2 ELSE 3

\* a route of three points split at a single shared coordinate in its middle
C3_Witness ==
    /\ n_pc = "split"
    /\ common_nodes[1] = common_nodes[2]
    /\ Len(coordinates_a) = 3
    /\ Len(segments_a[1]) = 2 /\ Len(segments_a[2]) = 1 /\ Len(segments_a[3]) = 2


\* the split of a route is well-ordered: first is found no later than last,
\* and the overlap part is not empty, starts at first and ends at last
WellOrdered(coordinates, segments) ==
    /\ ListIndex(coordinates, common_nodes[1]) <= ListIndex(coordinates, common_nodes[2])
    /\ segments[2] # <<>>
    /\ segments[2][1] = common_nodes[1]
    /\ segments[2][Len(segments[2])] = common_nodes[2]

\* C26: for two routes that share a coordinate, the split of route A and the
\* split of route B at the first and last common node found by scanning route
\* A are both well-ordered, whatever the direction in which route B passes the
\* shared nodes and whether or not coordinates repeat.
C26_WellOrderedSplit ==
    n_pc = "split" =>
        /\ WellOrdered(coordinates_a, segments_a)
        /\ WellOrdered(coordinates_b, segments_b)

(***************************************************************************)
(* Claims about one row (SpecRow)                                          *)
(***************************************************************************)

\* every endpoint of the row passes is_valid_coordinate
ValidRow(row) == ~HasInvalids(Endpoints(row))

IdenticalPair(row) == row.OriginA = row.OriginB /\ row.DestinationA = row.DestinationB

\* the k-th request of the row was made and the oracle answered it with a non-OK status
RequestFailed(calls, k) == k <= Len(calls) /\ calls[k].response.status # "OK"

\* C4: for a row with OriginA = OriginB and DestinationA = DestinationB the
\* exact-node pipeline (here with skip_invalid true, its default) reports
\* overlapDist = aDist and overlapTime = aTime, every before and after distance
\* and time 0, and an overlap percentage of 100 for A and for B, whatever the
\* oracle answers, a failure that yields distance 0 included.
C4_IdenticalRow ==
    (/\ r_pc = "done" /\ r_fn = "process_row_overlap" /\ r_skip_invalid
     /\ ValidRow(r_row) /\ IdenticalPair(r_row)) =>
        /\ r_outcome.kind = "return"
        /\ LET rec == r_outcome.result
           IN  /\ rec.overlapDist = rec.aDist
               /\ rec.overlapTime = rec.aTime
               /\ rec.aBeforeDist = 0 /\ rec.aBeforeTime = 0
               /\ rec.bBeforeDist = 0 /\ rec.bBeforeTime = 0
               /\ rec.aAfterDist = 0 /\ rec.aAfterTime = 0
               /\ rec.bAfterDist = 0 /\ rec.bAfterTime = 0
               /\ compute_percentages(rec.overlapDist, rec.aDist) = 100
               /\ compute_percentages(rec.overlapDist, rec.bDist) = 100

\* C5: when the two fetched routes of a row share no coordinate, the exact-node
\* pipeline (here with skip_invalid true, its default) returns a record with
\* the totals the oracle reported, overlap 0, every before and after value 0
\* and error flag 0, having made no request beyond the two route fetches.
C5_NoCommonNode ==
    (/\ r_pc = "done" /\ r_fn = "process_row_overlap" /\ r_skip_invalid
     /\ ValidRow(r_row) /\ ~IdenticalPair(r_row)
     /\ Len(r_calls) >= 2
     /\ CommonIndices(Fetched(r_calls, 1)[1], Fetched(r_calls, 2)[1]) = {}) =>
        /\ Len(r_calls) = 2
        /\ r_outcome.kind = "return"
        /\ r_outcome.api_errors = 0
        /\ r_outcome.api_calls = 2
        /\ LET rec == r_outcome.result
           IN  /\ rec.aDist = Fetched(r_calls, 1)[2] /\ rec.aTime = Fetched(r_calls, 1)[3]
               /\ rec.bDist = Fetched(r_calls, 2)[2] /\ rec.bTime = Fetched(r_calls, 2)[3]
               /\ rec.overlapDist = 0 /\ rec.overlapTime = 0
               /\ rec.aBeforeDist = 0 /\ rec.aBeforeTime = 0
               /\ rec.bBeforeDist = 0 /\ rec.bBeforeTime = 0
               /\ rec.aAfterDist = 0 /\ rec.aAfterTime = 0
               /\ rec.bAfterDist = 0 /\ rec.bAfterTime = 0

\* C6: when the oracle answers the fetch of route A, of route B, or of both
\* with a non-OK status, the row does not raise: it returns a record, and its
\* error counter is 1, whichever of the two fetches failed.
C6_OracleFailure ==
    (/\ r_pc = "done" /\ r_fn = "process_row_overlap"
     /\ r_skip_invalid /\ ValidRow(r_row) /\ ~IdenticalPair(r_row)
     /\ (RequestFailed(r_calls, 1) \/ RequestFailed(r_calls, 2))) =>
        /\ r_outcome.kind = "return"
        /\ r_outcome.api_errors = 1

\* C10: in every strategy the call count of the triple a row returns is the
\* number of get_route_data calls made while the row was processed.
C10_CallCount ==
    (r_pc = "done" /\ r_outcome.kind = "return") =>
        r_outcome.api_calls = Len(r_calls)

\* the row reaches the refinement of process_row_closest_nodes: its endpoints
\* are numbers, neither commute is trivial, the two commutes differ, both
\* routes were fetched and buffered and the plot did not raise
ReachesRefinement(row, calls) ==
    /\ ConvertsToFloats(row)
    /\ row.OriginA # row.DestinationA /\ row.OriginB # row.DestinationB
    /\ ~IdenticalPair(row)
    /\ Len(calls) >= 2
    /\ Len(Fetched(calls, 1)[1]) >= 2 /\ Len(Fetched(calls, 2)[1]) >= 2

\* the positions of the route's own vertices that lie inside the polygon
QualifyingIndices(coords, polygon) ==
    IF polygon = EmptyGeometry THEN {}
    ELSE {i \in 1..Len(coords) : Within(coords[i], polygon)}

\* the intersection of the buffers of the two fetched routes
FetchedIntersection(calls) ==
    Intersection(create_buffered_route(Fetched(calls, 1)[1]),
                 create_buffered_route(Fetched(calls, 2)[1]))

\* the number of segment requests the refinement of a route issues
SegmentCalls(qualifying) == IF Cardinality(qualifying) >= 2 THEN 3 ELSE 0

\* C14: in the closest-node refinement the entry of a route is the first and
\* the exit the last of its own vertices inside the intersection polygon; a
\* route with fewer than 2 such vertices (or no intersection at all) reports
\* during, before and after distance and time 0 and causes no segment request,
\* whatever the other route does.
C14_ClosestNodes ==
    (/\ r_pc = "done" /\ r_fn = "process_row_closest_nodes"
     /\ ReachesRefinement(r_row, r_calls)) =>
        LET coords_a == Fetched(r_calls, 1)[1]
            coords_b == Fetched(r_calls, 2)[1]
            in_a     == QualifyingIndices(coords_a, FetchedIntersection(r_calls))
            in_b     == QualifyingIndices(coords_b, FetchedIntersection(r_calls))
            rec      == r_outcome.result
        IN  /\ r_outcome.kind = "return" /\ r_outcome.api_errors = 0
            /\ Len(r_calls) = 2 + SegmentCalls(in_a) + SegmentCalls(in_b)
            /\ Cardinality(in_a) < 2 =>
                   /\ rec.aoverlapDist = 0 /\ rec.aoverlapTime = 0
                   /\ rec.aBeforeDist = 0 /\ rec.aBeforeTime = 0
                   /\ rec.aAfterDist = 0 /\ rec.aAfterTime = 0
            /\ Cardinality(in_b) < 2 =>
                   /\ rec.boverlapDist = 0 /\ rec.boverlapTime = 0
                   /\ rec.bBeforeDist = 0 /\ rec.bBeforeTime = 0
                   /\ rec.bAfterDist = 0 /\ rec.bAfterTime = 0
            /\ Cardinality(in_a) >= 2 =>
                   /\ r_calls[3].destination = FormatCoord(coords_a[SetMin(in_a)])
                   /\ r_calls[4].origin = FormatCoord(coords_a[SetMin(in_a)])
                   /\ r_calls[4].destination = FormatCoord(coords_a[SetMax(in_a)])
                   /\ r_calls[5].origin = FormatCoord(coords_a[SetMax(in_a)])
            /\ Cardinality(in_b) >= 2 =>
                   LET k == 2 + SegmentCalls(in_a)
                   IN  /\ r_calls[k + 1].destination = FormatCoord(coords_b[SetMin(in_b)])
                       /\ r_calls[k + 2].origin = FormatCoord(coords_b[SetMin(in_b)])
                       /\ r_calls[k + 2].destination = FormatCoord(coords_b[SetMax(in_b)])
                       /\ r_calls[k + 3].origin = FormatCoord(coords_b[SetMax(in_b)])

\* route A has a single vertex inside the intersection and reports zeros with
\* no request of its own, while route B, with two, is refined by three requests
C14_Witness ==
    /\ r_pc = "done" /\ r_fn = "process_row_closest_nodes"
    /\ ReachesRefinement(r_row, r_calls)
    /\ Cardinality(QualifyingIndices(Fetched(r_calls, 1)[1], FetchedIntersection(r_calls))) = 1
    /\ Cardinality(QualifyingIndices(Fetched(r_calls, 2)[1], FetchedIntersection(r_calls))) = 2
    /\ Len(Fetched(r_calls, 1)[1]) = 3
    /\ Len(r_calls) = 5
    /\ r_outcome.result.aoverlapDist = 0 /\ r_outcome.result.aBeforeDist = 0
    /\ r_outcome.result.boverlapDist = 2

\* every request of the row was answered with a route of at least 2 points
AllRoutesFetched(calls) == \A k \in 1..Len(calls) : Len(Fetched(calls, k)[1]) >= 2

\* C15: in the buffer-ratio strategy a row whose two commutes are the identical
\* pair reports aIntersecRatio = bIntersecRatio = 1.0 (1000 thousandths), also
\* when the identical pair is trivial, its origin being its destination.
C15_IdenticalRatio ==
    (/\ r_pc = "done" /\ r_fn = "process_row_route_buffers"
     /\ ConvertsToFloats(r_row) /\ IdenticalPair(r_row)
     /\ AllRoutesFetched(r_calls)) =>
        /\ r_outcome.kind = "return"
        /\ r_outcome.result.aIntersecRatio = 1000
        /\ r_outcome.result.bIntersecRatio = 1000


\* the three requests of the refinement of a route between entry and exit
RefinementQueries(coords, entry, exit) ==
    << <<FormatCoord(coords[1]), FormatCoord(entry)>>,
       <<FormatCoord(entry), FormatCoord(exit)>>,
       <<FormatCoord(exit), FormatCoord(Last(coords))>> >>

\* the requests k + 1, k + 2 and k + 3 of the row are the refinement of the
\* route between the first and the last of its qualifying vertices, and
\* before, during and after hold the distances and times of their answers
RefinedBy(coords, qualifying, k, before, during, after) ==
    /\ Len(r_calls) >= k + 3
    /\ \A j \in 1..3 :
           <<r_calls[k + j].origin, r_calls[k + j].destination>>
               = RefinementQueries(coords, coords[SetMin(qualifying)],
                                   coords[SetMax(qualifying)])[j]
    /\ before = <<Fetched(r_calls, k + 1)[2], Fetched(r_calls, k + 1)[3]>>
    /\ during = <<Fetched(r_calls, k + 2)[2], Fetched(r_calls, k + 2)[3]>>
    /\ after  = <<Fetched(r_calls, k + 3)[2], Fetched(r_calls, k + 3)[3]>>

\* C24: a route with at least 2 qualifying points is refined by exactly three
\* requests, in this order: from the first coordinate of the route to the
\* entry, from the entry to the exit, from the exit to the last coordinate of
\* the route; the distance and time of the three answers are the before,
\* during and after metrics of the route; the entry is the first and the exit
\* the last qualifying point.
C24_ThreeCalls ==
    (/\ r_pc = "done" /\ r_fn = "process_row_closest_nodes"
     /\ ReachesRefinement(r_row, r_calls)) =>
        LET coords_a == Fetched(r_calls, 1)[1]
            coords_b == Fetched(r_calls, 2)[1]
            in_a     == QualifyingIndices(coords_a, FetchedIntersection(r_calls))
            in_b     == QualifyingIndices(coords_b, FetchedIntersection(r_calls))
            rec      == r_outcome.result
            refined  == {route \in {"a", "b"} :
                            Cardinality(IF route = "a" THEN in_a ELSE in_b) >= 2}
        IN  /\ r_outcome.kind = "return"
            /\ Len(r_calls) = 2 + 3 * Cardinality(refined)
            /\ "a" \in refined =>
                   RefinedBy(coords_a, in_a, 2,
                             <<rec.aBeforeDist, rec.aBeforeTime>>,
                             <<rec.aoverlapDist, rec.aoverlapTime>>,
                             <<rec.aAfterDist, rec.aAfterTime>>)
            /\ "b" \in refined =>
                   RefinedBy(coords_b, in_b, Len(r_calls) - 3,
                             <<rec.bBeforeDist, rec.bBeforeTime>>,
                             <<rec.boverlapDist, rec.boverlapTime>>,
                             <<rec.bAfterDist, rec.bAfterTime>>)

\* both routes are refined, route A between the first and the third of its
\* vertices, and the three answers for route A differ
C24_Witness ==
    /\ r_pc = "done" /\ r_fn = "process_row_closest_nodes"
    /\ ReachesRefinement(r_row, r_calls)
    /\ Cardinality(QualifyingIndices(Fetched(r_calls, 1)[1], FetchedIntersection(r_calls))) >= 2
    /\ Cardinality(QualifyingIndices(Fetched(r_calls, 2)[1], FetchedIntersection(r_calls))) >= 2
    /\ Len(r_calls) = 8
    /\ r_outcome.kind = "return"
    /\ r_outcome.result.aBeforeDist = 1
    /\ r_outcome.result.aoverlapDist = 2
    /\ r_outcome.result.aAfterDist = 0

(***************************************************************************)
(* Claims about a batch (SpecBatch)                                        *)
(***************************************************************************)

BufferPipelines == {"process_row_route_buffers", "process_row_closest_nodes"}

\* the row function has called create_buffered_route on a fetched route of
\* fewer than 2 points
ShortRouteBuffered(row, calls) ==
    /\ ConvertsToFloats(row)
    /\ row.OriginA # row.DestinationA /\ row.OriginB # row.DestinationB
    /\ IF IdenticalPair(row)
       THEN Len(calls) >= 1 /\ Len(Fetched(calls, 1)[1]) < 2
       ELSE Len(calls) >= 2 /\ (Len(Fetched(calls, 1)[1]) < 2 \/ Len(Fetched(calls, 2)[1]) < 2)

EndpointFields ==
    {"OriginAlat", "OriginAlong", "DestinationAlat", "DestinationAlong",
     "OriginBlat", "OriginBlong", "DestinationBlat", "DestinationBlong"}

\* the record keeps the ID and the endpoints of the row and every metric is null
IsErrorRecordOf(rec, row) ==
    /\ rec.ID = row.ID
    /\ <<rec.OriginAlat, rec.OriginAlong>> = ParsePair(row.OriginA)
    /\ <<rec.DestinationAlat, rec.DestinationAlong>> = ParsePair(row.DestinationA)
    /\ <<rec.OriginBlat, rec.OriginBlong>> = ParsePair(row.OriginB)
    /\ <<rec.DestinationBlat, rec.DestinationBlong>> = ParsePair(row.DestinationB)
    /\ \A f \in (DOMAIN rec) \ (EndpointFields \cup {"ID"}) : rec[f] = Null

\* C7: with skip_invalid true, a row whose fetched route has fewer than 2
\* points when create_buffered_route is called on it returns a record that keeps
\* the row's ID and endpoints, has every metric null, error flag 1 and the count
\* of the oracle calls made; every other row returns what its own answers give.
C7_GeometryError ==
    (b_pc # "idle" /\ b_args.skip_invalid /\ b_fn \in BufferPipelines) =>
        \A i \in 1..Len(b_data) :
            (b_outcome[i] # NoOutcome /\ ShortRouteBuffered(b_data[i], b_calls[i])) =>
                /\ b_outcome[i].kind = "return"
                /\ b_outcome[i].api_errors = 1
                /\ b_outcome[i].api_calls = Len(b_calls[i])
                /\ IsErrorRecordOf(b_outcome[i].result, b_data[i])
                /\ \A j \in 1..Len(b_data) :
                       (j # i /\ b_outcome[j] # NoOutcome) =>
                           b_outcome[j] = RowFunction(b_fn, b_data[j], TRUE, b_calls[j])

\* a batch of two rows is complete: the first row ran into the geometry error,
\* the second, run after it, reports a ratio, and both records are returned
C7_Witness ==
    /\ b_pc = "done" /\ b_args.entry = "batch" /\ b_args.skip_invalid
    /\ b_fn = "process_row_route_buffers"
    /\ Len(b_data) = 2
    /\ ShortRouteBuffered(b_data[1], b_calls[1])
    /\ Len(Fetched(b_calls[1], 1)[1]) = 1
    /\ b_outcome[1].api_errors = 1
    /\ b_outcome[2].api_errors = 0
    /\ b_outcome[2].result.aIntersecRatio = 1000
    /\ Len(b_return[1]) = 2
    /\ b_return[4] = 1

\* some row of the input file failed validation, or some row raised
ErrorOccurred ==
    \/ \E idx \in 1..Len(b_csv) : HasInvalids(b_csv[idx])
    \/ b_after_error.raised # 0

\* C8: with skip_invalid false the first error aborts the batch: no row is
\* processed and no oracle call is made after it, no output is written, and the
\* error reaches the caller of the entry point, Overlap_Function included.
C8_FailFast ==
    (b_pc = "done" /\ ~b_args.skip_invalid /\ ErrorOccurred) =>
        /\ b_exception # "none"
        /\ b_output = NotWritten
        /\ b_after_error.rows = 0
        /\ b_after_error.calls = 0

\* C9: with skip_invalid true, a row with a malformed coordinate is counted by
\* read_csv_file and left out of the rows handed to the pipeline, and no
\* get_route_data call is made for it.
C9_MalformedRow ==
    (b_args.skip_invalid /\ b_data # <<>>) =>
        /\ b_pre_api_error_count =
               Cardinality({idx \in 1..Len(b_csv) : HasInvalids(b_csv[idx])})
        /\ \A k \in 1..Len(b_data) : ValidRow(b_data[k])
        /\ \A k \in 1..Len(b_data) : ~ValidRow(b_data[k]) => b_calls[k] = <<>>

\* every metric field of the record is null
NullMetrics(rec) == \A f \in (DOMAIN rec) \ (EndpointFields \cup {"ID"}) : rec[f] = Null

\* the rows that came back with error flag 1
RowsInError == {k \in 1..Len(b_data) : b_outcome[k].kind = "return" /\ b_outcome[k].api_errors = 1}

C12_OnlyAggregationShared ==
    b_pc # "idle" => api_response_cache = {}

\* C19: overlap_rec returns, first in its tuple, the list of the result records
\* of the rows, the dictionaries it writes to the output file, as the other
\* batch entry points do, and not the (record, calls, errors) triples of the
\* workers.
C19_OverlapRecReturnsRecords ==
    (b_fn = "process_row_overlap_rec_multiproc" /\ b_return # None /\ Len(b_data) > 0) =>
        b_return[1] = b_output

\* the field names of RouteBase and of what its subclasses add
RouteBaseFields ==
    {"ID", "OriginAlat", "OriginAlong", "DestinationAlat", "DestinationAlong",
     "OriginBlat", "OriginBlong", "DestinationBlat", "DestinationBlong",
     "aDist", "aTime", "bDist", "bTime"}

OverlapSegmentFields == {"overlapDist", "overlapTime"}

DualOverlapSegmentFields == {"aoverlapDist", "aoverlapTime", "boverlapDist", "boverlapTime"}

BeforeAfterSegmentFields ==
    {"aBeforeDist", "aBeforeTime", "bBeforeDist", "bBeforeTime",
     "aAfterDist", "aAfterTime", "bAfterDist", "bAfterTime"}

IntersectionRatioFields == {"aIntersecRatio", "bIntersecRatio"}

\* totals plus before, during and after per route
IsFullShape(record) ==
    \E during \in {OverlapSegmentFields, DualOverlapSegmentFields} :
        DOMAIN record = RouteBaseFields \cup during \cup BeforeAfterSegmentFields

\* totals plus the overlap segment only
IsSimpleShape(record) ==
    \E during \in {OverlapSegmentFields, DualOverlapSegmentFields} :
        DOMAIN record = RouteBaseFields \cup during

\* totals plus the two intersection ratios
IsRatioShape(record) == DOMAIN record = RouteBaseFields \cup IntersectionRatioFields

\* the records the rows of the selected pipeline have returned so far
RowRecords ==
    {b_outcome[k].result : k \in {j \in 1..Len(b_outcome) : b_outcome[j].kind = "return"}}

\* C13 as stated: for every accepted pair of flags the records of the pipeline
\* that runs have the full shape when commuting_info is "yes" and the simple
\* shape otherwise.
C13_TwoShapes ==
    \A record \in RowRecords :
        IF b_args.commuting_info = "yes" THEN IsFullShape(record)
        ELSE IsSimpleShape(record)

\* C13: for every accepted pair of flags one pipeline runs, and its records
\* have one of three shapes: the ratio shape (totals plus the two intersection
\* ratios) when approximation is "yes with buffer", whatever commuting_info
\* is; otherwise the full shape when commuting_info is "yes" and the simple
\* shape when it is "no".  A confirmed run that raised nothing wrote its log.
C13_ThreeShapes ==
    /\ (/\ b_pc = "done" /\ b_estimate # Null /\ b_exception = "none"
        /\ (b_args.auto_confirm \/ strip_lower(b_args.user_input) = "yes"))
       => b_log # NotWritten
    /\ \A record \in RowRecords :
           IF b_args.approximation = "yes with buffer" THEN IsRatioShape(record)
           ELSE IF b_args.commuting_info = "yes" THEN IsFullShape(record)
           ELSE IsSimpleShape(record)

\* the buffer pipeline, asked for before and after, has returned a record of ratios
C13_Witness ==
    /\ b_args.approximation = "yes with buffer"
    /\ b_args.commuting_info = "yes"
    /\ b_pc = "done"
    /\ b_log # NotWritten
    /\ \E record \in RowRecords : IsRatioShape(record)

\* C27: for every row read and every accepted pair of flags, the number of
\* requests request_cost_estimation adds for the row is at least the number
\* of get_route_data requests the selected row function issues for it.
C27_EstimateIsUpperBound ==
    b_pc \in {"map", "log", "done"} =>
        \A k \in 1..Len(b_calls) :
            Len(b_calls[k]) <= RowEstimate(b_data[k], b_args.approximation,
                                           b_args.commuting_info)

\* a result record that carries the ID and the endpoints of the row
CarriesRow(rec, row) ==
    /\ DOMAIN rec \subseteq STRING
    /\ RouteBaseFields \subseteq DOMAIN rec
    /\ rec.ID = row.ID
    /\ <<rec.OriginAlat, rec.OriginAlong>> = safe_split(row.OriginA)
    /\ <<rec.DestinationAlat, rec.DestinationAlong>> = safe_split(row.DestinationA)
    /\ <<rec.OriginBlat, rec.OriginBlong>> = safe_split(row.OriginB)
    /\ <<rec.DestinationBlat, rec.DestinationBlong>> = safe_split(row.DestinationB)

\* C28: in whatever order the workers ran the rows, the list a batch entry
\* point returns has one record per row read, the i-th record carrying the ID
\* and the endpoints of the i-th row, and the returned counts of requests and
\* of errors are the sums of the counts the rows returned.
C28_InputOrder ==
    b_return # None =>
        /\ Len(b_return[1]) = Len(b_data)
        /\ \A i \in 1..Len(b_data) : CarriesRow(b_return[1][i], b_data[i])
        /\ b_return[3] = SumOver([i \in 1..Len(b_data) |-> b_outcome[i].api_calls],
                                 Len(b_data))
        /\ b_return[4] = SumOver([i \in 1..Len(b_data) |-> b_outcome[i].api_errors],
                                 Len(b_data))

\* no row was read or run, no request was made, nothing was returned, raised
\* or written
NothingRun ==
    /\ b_data = <<>> /\ b_calls = <<>> /\ b_outcome = <<>>
    /\ b_after_error = [raised |-> 0, rows |-> 0, calls |-> 0]
    /\ b_return = None /\ b_exception = "none"
    /\ b_output = NotWritten /\ b_log = NotWritten /\ b_cache_file = NotWritten
    /\ api_response_cache = {}

\* request_cost_estimation raised: the estimate step is over and left no
\* number of requests
EstimateFailed == b_pc # "estimate" /\ b_estimate = Null

\* Overlap_Function makes no request before its estimate is computed and
\* confirmed, and a run whose estimate fails or which is refused ends there
NothingBeforeConfirmation(refused) ==
    b_args.entry = "Overlap_Function" =>
        /\ b_pc \in {"estimate", "confirm"} => NothingRun
        /\ EstimateFailed => (b_pc = "done" /\ NothingRun)
        /\ refused =>
               /\ b_pc \in {"estimate", "confirm", "done"}
               /\ NothingRun

CalcReturned(fn) == f_pc = "returned" /\ f_fn = fn

\* the unit squares of the corner grid that a rectangle covers
Cells(polygon) ==
    LET box == Box(polygon)
    IN  {<<x, y>> : x \in box.south..(box.north - 1), y \in box.west..(box.east - 1)}

CommonCells(polygon_a, polygon_b) == Cells(polygon_a) \cap Cells(polygon_b)

\* C17: calculate_overlap_ratio is the common area as a percentage of the
\* smaller rectangle, lies in [0, 100], is the same with its arguments swapped,
\* and is 0 exactly when the rectangles share no area: when they are apart,
\* when they only touch along an edge or at a corner, and when one of them has
\* no area.
C17_OverlapRatio ==
    CalcReturned("calculate_overlap_ratio") =>
        LET polygon_a == f_args[1]
            polygon_b == f_args[2]
            ratio     == f_result.value
            common    == Cardinality(CommonCells(polygon_a, polygon_b))
            smaller   == Smaller(Cardinality(Cells(polygon_a)), Cardinality(Cells(polygon_b)))
        IN  /\ 0 <= ratio /\ ratio <= Percent(100)
            /\ ratio = calculate_overlap_ratio(polygon_b, polygon_a)
            /\ ratio = 0 <=> CommonCells(polygon_a, polygon_b) = {}
            /\ smaller > 0 => ratio = (Percent(100) * common) \div smaller

\* two rectangles with area that touch at one corner only
C17_Witness ==
    /\ CalcReturned("calculate_overlap_ratio")
    /\ RectangleArea(f_args[1]) > 0 /\ RectangleArea(f_args[2]) > 0
    /\ RectangleIntersection(f_args[1], f_args[2]) # EmptyGeometry
    /\ Box(RectangleIntersection(f_args[1], f_args[2])).south
           = Box(RectangleIntersection(f_args[1], f_args[2])).north
    /\ Box(RectangleIntersection(f_args[1], f_args[2])).west
           = Box(RectangleIntersection(f_args[1], f_args[2])).east
    /\ f_result.value = 0

\* the rectangle that carries a label in one route's list
RectangleLabelled(rectangles, label) ==
    rectangles[CHOOSE k \in 1..Len(rectangles) : rectangles[k].label = label].rectangle

\* the label pairs of one kind ("t" before, "T" after) whose overlap ratio
\* reaches the threshold
QualifyingPairs(rectangles_a, rectangles_b, prefix, threshold) ==
    {<<rectangles_a[i].label, rectangles_b[j].label>> :
        <<i, j>> \in {p \in (1..Len(rectangles_a)) \X (1..Len(rectangles_b)) :
            /\ rectangles_a[p[1]].label[1] = prefix
            /\ rectangles_b[p[2]].label[1] = prefix
            /\ calculate_overlap_ratio(rectangles_a[p[1]].rectangle,
                                       rectangles_b[p[2]].rectangle) >= threshold}}

\* a result list holds exactly the qualifying pairs of its kind, each once and
\* with its ratio, route A's segment order first and route B's within it
KeepsInOrder(combinations, rectangles_a, rectangles_b, prefix, threshold) ==
    /\ {<<combinations[k][1], combinations[k][2]>> : k \in 1..Len(combinations)}
           = QualifyingPairs(rectangles_a, rectangles_b, prefix, threshold)
    /\ \A k \in 1..Len(combinations) :
           combinations[k][3] =
               calculate_overlap_ratio(RectangleLabelled(rectangles_a, combinations[k][1]),
                                       RectangleLabelled(rectangles_b, combinations[k][2]))
    /\ \A k, l \in 1..Len(combinations) :
           k < l =>
               \/ combinations[k][1][2] < combinations[l][1][2]
               \/ /\ combinations[k][1][2] = combinations[l][1][2]
                  /\ combinations[k][2][2] < combinations[l][2][2]

C18_PercentageRange ==
    CalcReturned("compute_percentages") =>
        /\ 0 <= f_result.value /\ f_result.value <= 100
        /\ f_args[2] = 0 => f_result.value = 0

\* C16: the ratios written to the record of two intersecting buffers are the
\* geodetic area of the intersection over the geodetic area of each buffer, as
\* calculate_area_ratios computes them; a planar area is never what is reported.
C16_GeodeticRatios ==
    CalcReturned("buffer_intersection_ratios") =>
        LET buffer_a     == f_args[1]
            buffer_b     == f_args[2]
            intersection == Intersection(buffer_a, buffer_b)
        IN  intersection # EmptyGeometry =>
                LET geodetic == calculate_area_ratios(buffer_a, buffer_b, intersection)
                IN  /\ f_result.value.aIntersecRatio = geodetic.aAreaRatio
                    /\ f_result.value.bIntersecRatio = geodetic.bAreaRatio

\* <<i, j>> comes before <<k, l>> in the enumeration, route A outer, route B inner
EnumeratedBefore(p, q) == p[1][2] < q[1][2] \/ (p[1][2] = q[1][2] /\ p[2][2] < q[2][2])

\* the boundary node that a pair of labels gives at a vertex of its rectangles
\* (vertices counted from 1, the last one repeating the first)
NodeOfPair(rectangles_a, rectangles_b, pair, vertex) ==
    [label_a |-> pair[1],
     node_a  |-> RectangleLabelled(rectangles_a, pair[1]).exterior[vertex],
     label_b |-> pair[2],
     node_b  |-> RectangleLabelled(rectangles_b, pair[2]).exterior[vertex]]

\* C21: find_overlap_boundary_nodes takes the start boundary from the first
\* kept before pair in enumeration order, at the first vertex of the pair's two
\* rectangles, and the end boundary from the last kept after pair, at the
\* second-to-last vertex of each rectangle; a side is None exactly when no pair
\* was kept on that side.
C21_BoundaryNodes ==
    CalcReturned("find_overlap_boundary_nodes") =>
        LET kept_before == QualifyingPairs(f_args[1], f_args[2], "t", f_args[3])
            kept_after  == QualifyingPairs(f_args[1], f_args[2], "T", f_args[3])
            first       == f_result.value.first_node_before_overlap
            last        == f_result.value.last_node_after_overlap
        IN  /\ first = NoneDict <=> kept_before = {}
            /\ last = NoneDict <=> kept_after = {}
            /\ \A p \in kept_before :
                   (\A q \in kept_before \ {p} : EnumeratedBefore(p, q)) =>
                       first = NodeOfPair(f_args[1], f_args[2], p, 1)
            /\ \A p \in kept_after :
                   (\A q \in kept_after \ {p} : EnumeratedBefore(q, p)) =>
                       last = NodeOfPair(f_args[1], f_args[2], p,
                                         Len(RectangleLabelled(f_args[1], p[1]).exterior) - 1)

\* several before pairs and several after pairs were kept, and the last after
\* pair is not the first one
C21_Witness ==
    /\ CalcReturned("find_overlap_boundary_nodes")
    /\ Cardinality(QualifyingPairs(f_args[1], f_args[2], "t", f_args[3])) >= 2
    /\ Cardinality(QualifyingPairs(f_args[1], f_args[2], "T", f_args[3])) >= 2
    /\ f_args[3] = Percent(50)
    /\ f_result.value.first_node_before_overlap # NoneDict
    /\ f_result.value.last_node_after_overlap.label_a[2] > 1

(***************************************************************************)
(* Claims about the rectangle pipeline on one row                          *)
(***************************************************************************)

\* both routes of the row were fetched with an "OK" answer
RecFetchedBoth ==
    /\ Len(r_calls) >= 2
    /\ r_calls[1].response.status = "OK"
    /\ r_calls[2].response.status = "OK"

\* the polyline of route A (k = 1) or route B (k = 2)
RecRoute(k) == Fetched(r_calls, k)[1]

RecCommonNodes == find_common_nodes(RecRoute(1), RecRoute(2))

RecHasCommonNodes == RecCommonNodes[1] # None /\ RecCommonNodes[2] # None

\* the before, overlap and after part of route k
RecParts(k) == split_segments(RecRoute(k), RecCommonNodes[1], RecCommonNodes[2])

\* two consecutive identical coordinates in a part of a route
HasZeroLengthSegment(part) == \E i \in 1..(Len(part) - 1) : part[i] = part[i + 1]

RecZeroLength ==
    \E k \in {1, 2} :
        HasZeroLengthSegment(RecParts(k)[1]) \/ HasZeroLengthSegment(RecParts(k)[3])

\* the rectangles of the before and after segments of route k
RecRectangles(k) == create_segment_rectangles(LabelledSegments(RecParts(k)), RowWidth).list

\* the pairs of one side that clear the threshold
RecKept(prefix) == QualifyingPairs(RecRectangles(1), RecRectangles(2), prefix, RowThreshold)

\* the five segment requests of the pipeline for given boundary nodes
SegmentQueries(row, first_a, last_a, first_b, last_b) ==
    << <<row.OriginA, first_a>>, <<first_a, last_a>>, <<last_a, row.DestinationA>>,
       <<row.OriginB, first_b>>, <<last_b, row.DestinationB>> >>

\* every segment request made so far is the one the common nodes give
QueriesUseCommonNodes ==
    LET first == FormatNode(InCornerUnits(RecCommonNodes[1]))
        last  == FormatNode(InCornerUnits(RecCommonNodes[2]))
    IN  \A k \in 3..Len(r_calls) :
            <<r_calls[k].origin, r_calls[k].destination>>
                = SegmentQueries(r_row, first, last, first, last)[k - 2]

\* C22: when the routes share a node and no pair of rectangles clears the
\* threshold before the overlap and none after it, every segment request of
\* the row, for route A and for route B, starts or ends at the first and last
\* common node that find_common_nodes returned.
C22_NoPairKept ==
    (RecFetchedBoth /\ RecHasCommonNodes /\ ~RecZeroLength
        /\ RecKept("t") = {} /\ RecKept("T") = {})
    => QueriesUseCommonNodes

\* a finished row whose routes both have a before rectangle, none of them kept
C22_Witness ==
    /\ r_pc = "done"
    /\ RecFetchedBoth /\ RecHasCommonNodes /\ ~RecZeroLength
    /\ RecKept("t") = {} /\ RecKept("T") = {}
    /\ Len(RecParts(1)[1]) >= 2 /\ Len(RecParts(2)[1]) >= 2
    /\ RecCommonNodes[1] # RecCommonNodes[2]
    /\ Len(r_calls) = 7
    /\ r_outcome.kind = "return"

\* C25: when a pair is kept on exactly one side, the boundary found on that
\* side is dropped as well: every segment request of the row uses the first
\* and last common node; a request that uses another node is made only when
\* a before pair and an after pair were both kept.
C25_BothSidesOrCommonNodes ==
    (RecFetchedBoth /\ RecHasCommonNodes /\ ~RecZeroLength)
    => /\ ((RecKept("t") = {}) # (RecKept("T") = {})) => QueriesUseCommonNodes
       /\ ~QueriesUseCommonNodes => (RecKept("t") # {} /\ RecKept("T") # {})

\* a finished row with a kept before pair and no kept after pair
C25_Witness ==
    /\ r_pc = "done"
    /\ RecFetchedBoth /\ RecHasCommonNodes /\ ~RecZeroLength
    /\ RecKept("t") # {} /\ RecKept("T") = {}
    /\ Len(r_calls) = 7
    /\ r_outcome.kind = "return"

\* a finished row whose requests use rectangle corners
C25_WitnessBothKept ==
    /\ r_pc = "done"
    /\ RecFetchedBoth /\ RecHasCommonNodes /\ ~RecZeroLength
    /\ ~QueriesUseCommonNodes
    /\ Len(r_calls) = 7

\* C30: when the before or after part of a route holds two consecutive
\* identical coordinates, the row ends in a ZeroDivisionError after its two
\* route requests and before any segment request: with skip_invalid true it
\* returns the null-metric record of the row with error flag 1 and a call
\* count of 2, with skip_invalid false the ZeroDivisionError reaches the caller.
C30_ZeroLengthSegment ==
    (r_pc = "done" /\ RecFetchedBoth /\ RecHasCommonNodes /\ RecZeroLength)
    => /\ Len(r_calls) = 2
       /\ r_skip_invalid =>
              /\ r_outcome.kind = "return"
              /\ r_outcome.result.ID = r_row.ID
              /\ NullMetrics(r_outcome.result)
              /\ r_outcome.api_errors = 1
              /\ r_outcome.api_calls = 2
       /\ ~r_skip_invalid => r_outcome = Raise(ZeroDivisionError)

\* route A repeats a coordinate before the common node; the row is skipped
C30_Witness ==
    /\ r_pc = "done"
    /\ r_skip_invalid
    /\ RecFetchedBoth /\ RecHasCommonNodes
    /\ HasZeroLengthSegment(RecParts(1)[1])
    /\ ~HasZeroLengthSegment(RecParts(2)[1]) /\ ~HasZeroLengthSegment(RecParts(2)[3])
    /\ r_outcome.kind = "return"
    /\ r_outcome.api_errors = 1

\* the rectangles of the segments of a whole route
WholeRouteRectangles(k) ==
    create_segment_rectangles(calculate_distances(RecRoute(k), "t"), RowWidth).list

\* C23: when the two routes share no node, the rectangles of the segments of
\* the whole routes decide the row: a row with a pair of them that clears the
\* threshold does not end after the two route requests with an overlap of 0.
C23_ApproximatorWithoutCommonNodes ==
    (r_pc = "done" /\ RecFetchedBoth /\ ~RecHasCommonNodes
        /\ ~HasZeroLengthSegment(RecRoute(1)) /\ ~HasZeroLengthSegment(RecRoute(2))
        /\ QualifyingPairs(WholeRouteRectangles(1), WholeRouteRectangles(2),
                           "t", RowThreshold) # {})
    => ~(/\ Len(r_calls) = 2
         /\ r_outcome.kind = "return"
         /\ r_outcome.result.overlapDist = 0)

====
